---- MODULE Spec2Model ----
(***************************************************************************)
(* Authentication and credential lifecycle of the CadArena backend         *)
(* (backend/app/api/v1/auth.py, backend/app/core/security.py).             *)
(* Time is counted in seconds since the first request; strings are         *)
(* sequences of one-character strings.                                     *)
(***************************************************************************)
EXTENDS Integers, Sequences, FiniteSets, TLC

(* ------------------------------ bounds --------------------------------- *)
MaxUsers == 1
MaxTokens == 2
MaxAttempts == 6
MaxTick == 2
TicksPerWindow == 2
NumSalts == 1
MaxProjects == 1
MaxMessages == 2
NumProcs == 2
MaxAccounts == 2

(* ------------------------- settings (config.py) ------------------------ *)
MAX_LOGIN_ATTEMPTS == 5
LOCKOUT_DURATION_MINUTES == 15
ACCESS_TOKEN_EXPIRE_MINUTES == 30
REFRESH_TOKEN_EXPIRE_DAYS == 7
VERIFICATION_TOKEN_EXPIRE_HOURS == 24
PASSWORD_RESET_TOKEN_EXPIRE_HOURS == 1
BCRYPT_MAX_BYTES == 72
PASSWORD_MIN_LENGTH == 8
USERNAME_MIN_LENGTH == 3
USERNAME_MAX_LENGTH == 50

SECRET_KEY == "SECRET_KEY"
REFRESH_SECRET_KEY == "REFRESH_SECRET_KEY"
ATTACKER_KEY == "ATTACKER_KEY"

Minutes(n) == n * 60
Hours(n) == n * 3600
Days(n) == n * 86400

(* The instants at which requests are observed: the first second and      *)
(* MaxTick later ones, TicksPerWindow of them in one lockout window.       *)
Tick == Minutes(LOCKOUT_DURATION_MINUTES) \div TicksPerWindow

Instants == { k * Tick : k \in 0..MaxTick }

(* The instants of a long run: the first second, one past the lifetime of *)
(* a reset token (and of an access token), one past that of a refresh      *)
(* token (and of a verification token).                                    *)
LongInstants ==
  {0, Hours(PASSWORD_RESET_TOKEN_EXPIRE_HOURS) + 1, Days(REFRESH_TOKEN_EXPIRE_DAYS) + 1}

NoTime == -1

(* ------------------------------ strings -------------------------------- *)
UpperChars == {"A", "B"}
LowerChars == {"a", "b", "e", "h", "i", "k", "l", "o", "p", "r", "s", "t", "w", "x"}
DigitChars == {"1", "2"}
SpecialChars == {"!", "?", "<", ">"}
SpaceChars == {" "}

LowerChar(c) ==
  CASE c = "A" -> "a"
    [] c = "B" -> "b"
    [] OTHER -> c

Lower(s) == [i \in 1..Len(s) |-> LowerChar(s[i])]

RECURSIVE LStrip(_)
LStrip(s) == IF s # <<>> /\ Head(s) \in SpaceChars THEN LStrip(Tail(s)) ELSE s

RECURSIVE RStrip(_)
RStrip(s) ==
  IF s # <<>> /\ s[Len(s)] \in SpaceChars THEN RStrip(SubSeq(s, 1, Len(s) - 1)) ELSE s

Strip(s) == LStrip(RStrip(s))

(* re.sub(r'<[^>]+>', '', text): a "<", at least one character other than *)
(* ">", and the next ">".                                                  *)
RECURSIVE RemoveTags(_)
RemoveTags(s) ==
  IF s = <<>> THEN <<>>
  ELSE IF Head(s) = "<"
          /\ Len(s) >= 3
          /\ s[2] # ">"
          /\ \E j \in 3..Len(s) : s[j] = ">"
       THEN LET j == CHOOSE k \in 3..Len(s) :
                       s[k] = ">" /\ \A m \in 3..(k - 1) : s[m] # ">"
            IN RemoveTags(SubSeq(s, j + 1, Len(s)))
       ELSE <<Head(s)>> \o RemoveTags(Tail(s))

sanitize_input(text) == IF text = <<>> THEN <<>> ELSE Strip(RemoveTags(text))

(* str.encode('utf-8'): one byte for an ASCII character, the two bytes    *)
(* C3 A9 for "U+00E9", which stands for the one character e-acute.         *)
Utf8Bytes(c) == IF c = "U+00E9" THEN <<"0xC3", "0xA9">> ELSE <<c>>

RECURSIVE Utf8Encode(_)
Utf8Encode(s) == IF s = <<>> THEN <<>> ELSE Utf8Bytes(Head(s)) \o Utf8Encode(Tail(s))

(* ----------------------------- passwords ------------------------------- *)
Truncate72(bytes) ==
  IF Len(bytes) > BCRYPT_MAX_BYTES THEN SubSeq(bytes, 1, BCRYPT_MAX_BYTES) ELSE bytes

get_password_hash(password, salt) ==
  [salt |-> salt, digest |-> Truncate72(Utf8Encode(password))]

(* Variant: the candidate is compared without the 72-byte truncation. *)
verify_password_untruncated(plain_password, hashed_password) ==
  Utf8Encode(plain_password) = hashed_password.digest

verify_password(plain_password, hashed_password) ==
  Truncate72(Utf8Encode(plain_password)) = hashed_password.digest

HasChar(password, class) == \E i \in 1..Len(password) : password[i] \in class

TooShort == "Password must be at least 8 characters long"
TooLong == "Password must be at most 72 characters long"
NoUppercase == "Password must contain at least one uppercase letter"
NoLowercase == "Password must contain at least one lowercase letter"
NoDigit == "Password must contain at least one digit"
NoSpecial == "Password must contain at least one special character"

(* Variant: the checks stop at the first rule that fails. *)
validate_password_strength_first_only(password) ==
  LET errors ==
        IF Len(password) < PASSWORD_MIN_LENGTH THEN <<TooShort>>
        ELSE IF Len(password) > BCRYPT_MAX_BYTES THEN <<TooLong>>
        ELSE IF ~HasChar(password, UpperChars) THEN <<NoUppercase>>
        ELSE IF ~HasChar(password, LowerChars) THEN <<NoLowercase>>
        ELSE IF ~HasChar(password, DigitChars) THEN <<NoDigit>>
        ELSE IF ~HasChar(password, SpecialChars) THEN <<NoSpecial>>
        ELSE <<>>
  IN [is_valid |-> Len(errors) = 0, errors |-> errors]

validate_password_strength(password) ==
  LET errors ==
        (IF Len(password) < PASSWORD_MIN_LENGTH THEN <<TooShort>> ELSE <<>>)
        \o (IF Len(password) > BCRYPT_MAX_BYTES THEN <<TooLong>> ELSE <<>>)
        \o (IF ~HasChar(password, UpperChars) THEN <<NoUppercase>> ELSE <<>>)
        \o (IF ~HasChar(password, LowerChars) THEN <<NoLowercase>> ELSE <<>>)
        \o (IF ~HasChar(password, DigitChars) THEN <<NoDigit>> ELSE <<>>)
        \o (IF ~HasChar(password, SpecialChars) THEN <<NoSpecial>> ELSE <<>>)
  IN [is_valid |-> Len(errors) = 0, errors |-> errors]

(* Field(min_length=8, max_length=72) of the request schemas. *)
PasswordFieldOk(password) ==
  Len(password) >= PASSWORD_MIN_LENGTH /\ Len(password) <= BCRYPT_MAX_BYTES

(* UserCreate.username: Field(min_length=3, max_length=50) and the validator. *)
UsernameFieldOk(username) ==
  /\ Len(username) >= USERNAME_MIN_LENGTH
  /\ Len(username) <= USERNAME_MAX_LENGTH
  /\ \A i \in 1..Len(username) :
       username[i] \in UpperChars \cup LowerChars \cup DigitChars

(* Variant: the username is kept as typed. *)
validate_username_verbatim(v) == v

validate_username(v) == Lower(v)

(* --------------------------- request inputs ---------------------------- *)
PwA == <<"A", "a", "1", "!", "a", "a", "a", "a">>
PwB == <<"B", "b", "2", "?", "b", "b", "b", "b">>
PwWeak == <<"w", "e", "a", "k", "p", "a", "s", "s">>
PwShort == <<"s", "1", "!", "B">>
Passwords == {PwA, PwB, PwWeak, PwShort}

(* Passwords handed to the password functions on their own: every rule of  *)
(* the policy missed by one of them, and lengths on both sides of the      *)
(* 72-byte limit, in ASCII and with two-byte characters.                   *)
PwWordShort == <<"s", "h", "o", "r", "t">>
ProbePasswords ==
  LET Repeat(c, n) == [i \in 1..n |-> c]
      room == BCRYPT_MAX_BYTES - Len(PwA)
      PwEmpty == <<>>
      PwNoUpper == <<"a", "a", "1", "!", "a", "a", "a", "a">>
      PwNoLower == <<"A", "A", "1", "!", "A", "A", "A", "A">>
      PwNoDigit == <<"A", "a", "a", "!", "a", "a", "a", "a">>
      PwNoSpecial == <<"A", "a", "1", "1", "a", "a", "a", "a">>
      PwAccented == <<"A", "1", "!">> \o Repeat("U+00E9", PASSWORD_MIN_LENGTH)
      PwFull == PwA \o Repeat("a", room)
      PwFullOther == PwA \o Repeat("a", room - 1) \o <<"b">>
      PwOverA == PwFull \o <<"a">>
      PwOverB == PwFull \o <<"b">>
      PwWide == PwA \o Repeat("U+00E9", room \div 2)
      PwWideOver == PwWide \o <<"a">>
      PwWideSplit == PwA \o <<"a">> \o Repeat("U+00E9", room \div 2)
      PwWideSplitOver == PwWideSplit \o <<"b">>
  IN {PwA, PwB, PwWordShort, PwEmpty, PwNoUpper, PwNoLower, PwNoDigit, PwNoSpecial,
      PwAccented, PwFull, PwFullOther, PwOverA, PwOverB, PwWide, PwWideOver, PwWideSplit,
      PwWideSplitOver}
SignupPasswords == {PwA, PwWeak}
LoginPasswords == {PwA, PwB}
NewPasswords == {PwA, PwB, PwWeak}

RawUsernames == {<<"a", "l", "i">>, <<"A", "l", "i">>, <<"b", "o", "b">>}
RawEmails == {<<"a", "@", "x">>, <<"A", "@", "x">>, <<"b", "@", "x">>}
RawIdentifiers ==
  {<<"a", "l", "i">>, <<" ", "A", "l", "i", " ">>, <<"a", "@", "x">>,
   <<"<", "b", ">", "b", "o", "b">>, <<"e", "l", "i">>}

(* ---------------------------- bearer tokens ---------------------------- *)
(* jwt.encode is deterministic (HS256): the token string is a function of  *)
(* the claims and the key, with exp in whole seconds.                      *)
NoToken ==
  [kind |-> "none", sub |-> 0, username |-> <<>>, exp |-> 0, type |-> "none", key |-> "none"]
Garbage ==
  [kind |-> "garbage", sub |-> 0, username |-> <<>>, exp |-> 0, type |-> "none", key |-> "none"]

jwt_encode(sub, username, exp, type, key) ==
  [kind |-> "jwt", sub |-> sub, username |-> username, exp |-> exp, type |-> type, key |-> key]

create_access_token(sub, username, t) ==
  jwt_encode(sub, username, t + Minutes(ACCESS_TOKEN_EXPIRE_MINUTES), "access", SECRET_KEY)

create_refresh_token(sub, t) ==
  jwt_encode(sub, <<>>, t + Days(REFRESH_TOKEN_EXPIRE_DAYS), "refresh", REFRESH_SECRET_KEY)

NoPayload == [valid |-> FALSE, sub |-> 0, type |-> "none", exp |-> 0]
Claims(token) == [valid |-> TRUE, sub |-> token.sub, type |-> token.type, exp |-> token.exp]

(* jwt.decode: JWTError for a malformed token, a signature made with       *)
(* another key, or an expiry in the past.                                  *)
jwt_decode_ok(token, key, t) ==
  token.kind = "jwt" /\ token.key = key /\ ~(token.exp < t)

(* jwt.get_unverified_claims: JWTError only for a malformed token. *)
get_unverified_claims_ok(token) == token.kind = "jwt"

(* Variant: the type claim is not looked at. *)
decode_access_token_untyped(token, t) ==
  IF jwt_decode_ok(token, SECRET_KEY, t) \/ get_unverified_claims_ok(token)
  THEN Claims(token)
  ELSE NoPayload

decode_access_token(token, t) ==
  IF jwt_decode_ok(token, SECRET_KEY, t) \/ get_unverified_claims_ok(token)
  THEN IF token.type # "access" THEN NoPayload ELSE Claims(token)
  ELSE NoPayload

decode_refresh_token(token, t) ==
  IF jwt_decode_ok(token, REFRESH_SECRET_KEY, t) \/ get_unverified_claims_ok(token)
  THEN IF token.type # "refresh" THEN NoPayload ELSE Claims(token)
  ELSE NoPayload

(* ------------------------------ database ------------------------------ *)
(* A database value db is a record                                         *)
(*   users    table users, a sequence indexed by id                        *)
(*   vtokens  table verification_tokens, a set of rows                     *)
(*   rtokens  table password_reset_tokens, a set of rows                   *)
(*   nextTok  the number of opaque tokens generated so far                 *)
(* A handler maps (db, the time t, the request) to the committed database  *)
(* and the response.  email is settings.EMAIL_ENABLED.                     *)
Response(op, status, detail) ==
  [op |-> op, status |-> status, detail |-> detail, user |-> 0, minutes |-> 0,
   access_token |-> NoToken, refresh_token |-> NoToken, presented |-> NoToken,
   opaque |-> 0, mail |-> 0]

(* What the history variable last keeps of a response. *)
Summary(response) ==
  [op |-> response.op, status |-> response.status, user |-> response.user]

Result(db, response) == [db |-> db, resp |-> response]

Ids(db) == DOMAIN db.users

First(ids) == CHOOSE i \in ids : \A j \in ids : i <= j

(* secrets.token_urlsafe(32): a value never generated before. *)
generate_token(db) == db.nextTok + 1

(* ---------------------------- lockout helpers -------------------------- *)
(* Variant: the comparison with the clock reversed. *)
check_account_locked_reversed(user, t) ==
  user.locked_until # NoTime /\ user.locked_until < t

check_account_locked(user, t) == user.locked_until # NoTime /\ user.locked_until > t

remaining_minutes(user, t) == (user.locked_until - t) \div 60

(* Variant: the lock is lifted and the counter is kept. *)
reset_login_attempts_lock_only(user) ==
  [user EXCEPT !.locked_until = NoTime]

(* Variant: the counter is reset and the lock is kept. *)
reset_login_attempts_counter_only(user) ==
  [user EXCEPT !.login_attempts = 0]

reset_login_attempts(user) ==
  [user EXCEPT !.login_attempts = 0, !.locked_until = NoTime]

(* Variant: a failure after the lock has run out starts a new count. *)
increment_login_attempts_restart(user, t) ==
  LET expired == user.locked_until # NoTime /\ user.locked_until <= t
      attempts == IF expired THEN 1 ELSE user.login_attempts + 1
  IN [user EXCEPT
        !.login_attempts = attempts,
        !.locked_until = IF attempts >= MAX_LOGIN_ATTEMPTS
                         THEN t + Minutes(LOCKOUT_DURATION_MINUTES)
                         ELSE IF expired THEN NoTime ELSE @]

(* Variant: the lock is set one failure early. *)
increment_login_attempts_early(user, t) ==
  LET attempts == user.login_attempts + 1
  IN [user EXCEPT
        !.login_attempts = attempts,
        !.locked_until = IF attempts >= MAX_LOGIN_ATTEMPTS - 1
                         THEN t + Minutes(LOCKOUT_DURATION_MINUTES)
                         ELSE @]

(* Variant: the lock is set one failure late. *)
increment_login_attempts_late(user, t) ==
  LET attempts == user.login_attempts + 1
  IN [user EXCEPT
        !.login_attempts = attempts,
        !.locked_until = IF attempts > MAX_LOGIN_ATTEMPTS
                         THEN t + Minutes(LOCKOUT_DURATION_MINUTES)
                         ELSE @]

increment_login_attempts(user, t) ==
  LET attempts == user.login_attempts + 1
  IN [user EXCEPT
        !.login_attempts = attempts,
        !.locked_until = IF attempts >= MAX_LOGIN_ATTEMPTS
                         THEN t + Minutes(LOCKOUT_DURATION_MINUTES)
                         ELSE @]

(* ------------------------------- signup -------------------------------- *)
(* Variant: the email is stored in the letter case it was typed in. *)
signup_email_verbatim(db, t, email_enabled, raw_username, raw_email, password, salt) ==
  IF ~UsernameFieldOk(raw_username) \/ ~PasswordFieldOk(password)
  THEN Result(db, Response("signup", 422, "validation error"))
  ELSE
  LET username == sanitize_input(validate_username(raw_username))
      email == Strip(raw_email)
      strength == validate_password_strength(password)
  IN
  IF ~strength.is_valid
  THEN Result(db, Response("signup", 400, "Password does not meet requirements"))
  ELSE IF \E i \in Ids(db) : db.users[i].email = email
  THEN Result(db, Response("signup", 400, "Email already registered"))
  ELSE IF \E i \in Ids(db) : db.users[i].username = username
  THEN Result(db, Response("signup", 400, "Username already taken"))
  ELSE
  LET id == Len(db.users) + 1
      new_user == [username |-> username,
                   email |-> email,
                   hashed_password |-> get_password_hash(password, salt),
                   is_verified |-> ~email_enabled,
                   refresh_token |-> NoToken,
                   login_attempts |-> 0,
                   locked_until |-> NoTime]
      token == generate_token(db)
      db1 == [db EXCEPT !.users = Append(@, new_user)]
  IN
  IF email_enabled
  THEN Result([db1 EXCEPT
                 !.vtokens = @ \cup
                   {[user_id |-> id, token |-> token,
                     expires_at |-> t + Hours(VERIFICATION_TOKEN_EXPIRE_HOURS)]},
                 !.nextTok = token],
              [Response("signup", 201, "created") EXCEPT !.user = id, !.mail = token])
  ELSE Result(db1, [Response("signup", 201, "created") EXCEPT !.user = id])

(* Variant: the new user is verified whatever the setting. *)
signup_always_verified(db, t, email_enabled, raw_username, raw_email, password, salt) ==
  IF ~UsernameFieldOk(raw_username) \/ ~PasswordFieldOk(password)
  THEN Result(db, Response("signup", 422, "validation error"))
  ELSE
  LET username == sanitize_input(validate_username(raw_username))
      email == Strip(Lower(raw_email))
      strength == validate_password_strength(password)
  IN
  IF ~strength.is_valid
  THEN Result(db, Response("signup", 400, "Password does not meet requirements"))
  ELSE IF \E i \in Ids(db) : db.users[i].email = email
  THEN Result(db, Response("signup", 400, "Email already registered"))
  ELSE IF \E i \in Ids(db) : db.users[i].username = username
  THEN Result(db, Response("signup", 400, "Username already taken"))
  ELSE
  LET id == Len(db.users) + 1
      new_user == [username |-> username,
                   email |-> email,
                   hashed_password |-> get_password_hash(password, salt),
                   is_verified |-> TRUE,
                   refresh_token |-> NoToken,
                   login_attempts |-> 0,
                   locked_until |-> NoTime]
      token == generate_token(db)
      db1 == [db EXCEPT !.users = Append(@, new_user)]
  IN
  IF email_enabled
  THEN Result([db1 EXCEPT
                 !.vtokens = @ \cup
                   {[user_id |-> id, token |-> token,
                     expires_at |-> t + Hours(VERIFICATION_TOKEN_EXPIRE_HOURS)]},
                 !.nextTok = token],
              [Response("signup", 201, "created") EXCEPT !.user = id, !.mail = token])
  ELSE Result(db1, [Response("signup", 201, "created") EXCEPT !.user = id])

signup(db, t, email_enabled, raw_username, raw_email, password, salt) ==
  IF ~UsernameFieldOk(raw_username) \/ ~PasswordFieldOk(password)
  THEN Result(db, Response("signup", 422, "validation error"))
  ELSE
  LET username == sanitize_input(validate_username(raw_username))
      email == Strip(Lower(raw_email))
      strength == validate_password_strength(password)
  IN
  IF ~strength.is_valid
  THEN Result(db, Response("signup", 400, "Password does not meet requirements"))
  ELSE IF \E i \in Ids(db) : db.users[i].email = email
  THEN Result(db, Response("signup", 400, "Email already registered"))
  ELSE IF \E i \in Ids(db) : db.users[i].username = username
  THEN Result(db, Response("signup", 400, "Username already taken"))
  ELSE
  LET id == Len(db.users) + 1
      new_user == [username |-> username,
                   email |-> email,
                   hashed_password |-> get_password_hash(password, salt),
                   is_verified |-> ~email_enabled,
                   refresh_token |-> NoToken,
                   login_attempts |-> 0,
                   locked_until |-> NoTime]
      token == generate_token(db)
      db1 == [db EXCEPT !.users = Append(@, new_user)]
  IN
  IF email_enabled
  THEN Result([db1 EXCEPT
                 !.vtokens = @ \cup
                   {[user_id |-> id, token |-> token,
                     expires_at |-> t + Hours(VERIFICATION_TOKEN_EXPIRE_HOURS)]},
                 !.nextTok = token],
              [Response("signup", 201, "created") EXCEPT !.user = id, !.mail = token])
  ELSE Result(db1, [Response("signup", 201, "created") EXCEPT !.user = id])

(* -------------------------------- login -------------------------------- *)
FindByIdentifier(db, identifier) ==
  {i \in Ids(db) : db.users[i].email = identifier \/ db.users[i].username = identifier}

(* The two 401 responses of login: no user matches the identifier, and    *)
(* the password does not verify.                                           *)
(* Variant: an unknown identifier is reported as such. *)
login_unknown_not_found ==
  Response("login", 404, "User not found")

login_unknown_response ==
  Response("login", 401, "Incorrect email/username or password")

(* Variant: every counted failure is reported as a locked account. *)
login_wrong_password_locked(u) ==
  [Response("login", 423, "Account locked") EXCEPT !.user = u]

login_wrong_password_response(u) ==
  [Response("login", 401, "Incorrect email/username or password") EXCEPT !.user = u]

login_locked_response(u, user, t) ==
  [Response("login", 423, "Account locked") EXCEPT
     !.user = u, !.minutes = remaining_minutes(user, t)]

(* Variant: the attempts are reset as soon as the password is right,      *)
(* before the verification requirement is looked at.                       *)
login_reset_first(db, t, email_enabled, raw_identifier, password) ==
  LET identifier == Lower(sanitize_input(raw_identifier))
      found == FindByIdentifier(db, identifier)
  IN
  IF found = {}
  THEN Result(db, login_unknown_response)
  ELSE
  LET u == First(found)
      user == db.users[u]
  IN
  IF check_account_locked(user, t)
  THEN Result(db, login_locked_response(u, user, t))
  ELSE IF ~verify_password(password, user.hashed_password)
  THEN Result([db EXCEPT !.users[u] = increment_login_attempts(user, t)],
              login_wrong_password_response(u))
  ELSE IF email_enabled /\ ~user.is_verified
  THEN Result([db EXCEPT !.users[u] = reset_login_attempts(user)],
              [Response("login", 403, "Email not verified") EXCEPT !.user = u])
  ELSE
  LET access_token == create_access_token(u, user.username, t)
      refresh_token == create_refresh_token(u, t)
      verified == IF ~email_enabled /\ ~user.is_verified THEN TRUE ELSE user.is_verified
  IN
  Result([db EXCEPT
            !.users[u] = [reset_login_attempts(user) EXCEPT
                            !.is_verified = verified,
                            !.refresh_token = refresh_token]],
         [Response("login", 200, "ok") EXCEPT
            !.user = u, !.access_token = access_token, !.refresh_token = refresh_token])

login(db, t, email_enabled, raw_identifier, password) ==
  LET identifier == Lower(sanitize_input(raw_identifier))
      found == FindByIdentifier(db, identifier)
  IN
  IF found = {}
  THEN Result(db, login_unknown_response)
  ELSE
  LET u == First(found)
      user == db.users[u]
  IN
  IF check_account_locked(user, t)
  THEN Result(db, login_locked_response(u, user, t))
  ELSE IF ~verify_password(password, user.hashed_password)
  THEN Result([db EXCEPT !.users[u] = increment_login_attempts(user, t)],
              login_wrong_password_response(u))
  ELSE IF email_enabled /\ ~user.is_verified
  THEN Result(db, [Response("login", 403, "Email not verified") EXCEPT !.user = u])
  ELSE
  LET access_token == create_access_token(u, user.username, t)
      refresh_token == create_refresh_token(u, t)
      verified == IF ~email_enabled /\ ~user.is_verified THEN TRUE ELSE user.is_verified
  IN
  Result([db EXCEPT
            !.users[u] = [reset_login_attempts(user) EXCEPT
                            !.is_verified = verified,
                            !.refresh_token = refresh_token]],
         [Response("login", 200, "ok") EXCEPT
            !.user = u, !.access_token = access_token, !.refresh_token = refresh_token])

(* ------------------------------- refresh ------------------------------- *)
(* Variant: any refresh token of an existing user is accepted. *)
refresh_token_unchecked(db, t, token) ==
  LET payload == decode_refresh_token(token, t)
  IN
  IF ~payload.valid
  THEN Result(db, [Response("refresh", 401, "Invalid or expired refresh token")
                     EXCEPT !.presented = token])
  ELSE
  LET user_id == payload.sub
  IN
  IF user_id \notin Ids(db)
  THEN Result(db, [Response("refresh", 401, "Invalid refresh token")
                     EXCEPT !.presented = token])
  ELSE
  LET access_token == create_access_token(user_id, db.users[user_id].username, t)
      new_refresh_token == create_refresh_token(user_id, t)
  IN
  Result([db EXCEPT !.users[user_id].refresh_token = new_refresh_token],
         [Response("refresh", 200, "ok") EXCEPT
            !.user = user_id, !.presented = token,
            !.access_token = access_token, !.refresh_token = new_refresh_token])

refresh_token(db, t, token) ==
  LET payload == decode_refresh_token(token, t)
  IN
  IF ~payload.valid
  THEN Result(db, [Response("refresh", 401, "Invalid or expired refresh token")
                     EXCEPT !.presented = token])
  ELSE
  LET user_id == payload.sub
  IN
  IF user_id \notin Ids(db) \/ db.users[user_id].refresh_token # token
  THEN Result(db, [Response("refresh", 401, "Invalid refresh token")
                     EXCEPT !.presented = token])
  ELSE
  LET access_token == create_access_token(user_id, db.users[user_id].username, t)
      new_refresh_token == create_refresh_token(user_id, t)
  IN
  Result([db EXCEPT !.users[user_id].refresh_token = new_refresh_token],
         [Response("refresh", 200, "ok") EXCEPT
            !.user = user_id, !.presented = token,
            !.access_token = access_token, !.refresh_token = new_refresh_token])

(* ----------------------------- current user ---------------------------- *)
(* Variant: an access token is accepted only while its user holds a stored *)
(* refresh token.                                                          *)
get_current_user_session_bound(db, t, token) ==
  LET payload == decode_access_token(token, t)
  IN IF ~payload.valid THEN 0
     ELSE IF payload.sub \notin Ids(db) THEN 0
     ELSE IF db.users[payload.sub].refresh_token = NoToken THEN 0
     ELSE payload.sub

(* get_current_user: 0 stands for the 401 it raises. *)
get_current_user(db, t, token) ==
  LET payload == decode_access_token(token, t)
  IN IF ~payload.valid THEN 0
     ELSE IF payload.sub \notin Ids(db) THEN 0
     ELSE payload.sub

(* -------------------------------- logout ------------------------------- *)
(* Variant: the stored refresh token is kept. *)
logout_keeps_token(db, t, token) ==
  LET current_user == get_current_user(db, t, token)
  IN
  IF current_user = 0
  THEN Result(db, [Response("logout", 401, "Invalid or expired token")
                     EXCEPT !.presented = token])
  ELSE Result(db, [Response("logout", 200, "Logged out successfully")
                     EXCEPT !.user = current_user, !.presented = token])

logout(db, t, token) ==
  LET current_user == get_current_user(db, t, token)
  IN
  IF current_user = 0
  THEN Result(db, [Response("logout", 401, "Invalid or expired token")
                     EXCEPT !.presented = token])
  ELSE Result([db EXCEPT !.users[current_user].refresh_token = NoToken],
              [Response("logout", 200, "Logged out successfully")
                 EXCEPT !.user = current_user, !.presented = token])

(* --------------------------- email verification ------------------------ *)
(* Variant: a successful verification marks every user verified. *)
verify_email_everyone(db, t, token) ==
  LET rows == {r \in db.vtokens : r.token = token}
  IN
  IF rows = {}
  THEN Result(db, [Response("verify_email", 400, "Invalid verification token")
                     EXCEPT !.opaque = token])
  ELSE
  LET token_obj == CHOOSE r \in rows : TRUE
      u == token_obj.user_id
  IN
  IF token_obj.expires_at < t
  THEN Result(db, [Response("verify_email", 400, "Verification token has expired")
                     EXCEPT !.user = u, !.opaque = token])
  ELSE IF u \notin Ids(db)
  THEN Result(db, [Response("verify_email", 404, "User not found")
                     EXCEPT !.opaque = token])
  ELSE IF db.users[u].is_verified
  THEN Result(db, [Response("verify_email", 200, "Email already verified")
                     EXCEPT !.user = u, !.opaque = token])
  ELSE Result([db EXCEPT
                 !.users = [i \in DOMAIN @ |-> [@[i] EXCEPT !.is_verified = TRUE]],
                 !.vtokens = @ \ {token_obj}],
              [Response("verify_email", 200, "Email verified successfully")
                 EXCEPT !.user = u, !.opaque = token])

verify_email(db, t, token) ==
  LET rows == {r \in db.vtokens : r.token = token}
  IN
  IF rows = {}
  THEN Result(db, [Response("verify_email", 400, "Invalid verification token")
                     EXCEPT !.opaque = token])
  ELSE
  LET token_obj == CHOOSE r \in rows : TRUE
      u == token_obj.user_id
  IN
  IF token_obj.expires_at < t
  THEN Result(db, [Response("verify_email", 400, "Verification token has expired")
                     EXCEPT !.user = u, !.opaque = token])
  ELSE IF u \notin Ids(db)
  THEN Result(db, [Response("verify_email", 404, "User not found")
                     EXCEPT !.opaque = token])
  ELSE IF db.users[u].is_verified
  THEN Result(db, [Response("verify_email", 200, "Email already verified")
                     EXCEPT !.user = u, !.opaque = token])
  ELSE Result([db EXCEPT !.users[u].is_verified = TRUE, !.vtokens = @ \ {token_obj}],
              [Response("verify_email", 200, "Email verified successfully")
                 EXCEPT !.user = u, !.opaque = token])

(* Variant: the old verification tokens of the user are kept. *)
resend_verification_keeps_old(db, t, email) ==
  LET found == {i \in Ids(db) : db.users[i].email = email}
  IN
  IF found = {}
  THEN Result(db, Response("resend_verification", 200,
                           "If email exists, verification link has been sent"))
  ELSE
  LET u == First(found)
      token == generate_token(db)
  IN
  IF db.users[u].is_verified
  THEN Result(db, [Response("resend_verification", 200, "Email already verified")
                     EXCEPT !.user = u])
  ELSE Result([db EXCEPT
                 !.vtokens = @ \cup
                   {[user_id |-> u, token |-> token,
                     expires_at |-> t + Hours(VERIFICATION_TOKEN_EXPIRE_HOURS)]},
                 !.nextTok = token],
              [Response("resend_verification", 200, "Verification email sent")
                 EXCEPT !.user = u, !.mail = token])

resend_verification(db, t, email) ==
  LET found == {i \in Ids(db) : db.users[i].email = email}
  IN
  IF found = {}
  THEN Result(db, Response("resend_verification", 200,
                           "If email exists, verification link has been sent"))
  ELSE
  LET u == First(found)
      token == generate_token(db)
  IN
  IF db.users[u].is_verified
  THEN Result(db, [Response("resend_verification", 200, "Email already verified")
                     EXCEPT !.user = u])
  ELSE Result([db EXCEPT
                 !.vtokens = {r \in @ : r.user_id # u} \cup
                   {[user_id |-> u, token |-> token,
                     expires_at |-> t + Hours(VERIFICATION_TOKEN_EXPIRE_HOURS)]},
                 !.nextTok = token],
              [Response("resend_verification", 200, "Verification email sent")
                 EXCEPT !.user = u, !.mail = token])

(* ---------------------------- password reset --------------------------- *)
(* Variant: the prior reset tokens are left unused. *)
forgot_password_keeps_prior(db, t, email) ==
  LET found == {i \in Ids(db) : db.users[i].email = email}
  IN
  IF found = {}
  THEN Result(db, Response("forgot_password", 200,
                           "If email exists, password reset link has been sent"))
  ELSE
  LET u == First(found)
      token == generate_token(db)
  IN
  Result([db EXCEPT
            !.rtokens =
              @ \cup {[user_id |-> u, token |-> token,
                     expires_at |-> t + Hours(PASSWORD_RESET_TOKEN_EXPIRE_HOURS),
                     used |-> FALSE]},
            !.nextTok = token],
         [Response("forgot_password", 200, "Password reset link sent to your email")
            EXCEPT !.user = u, !.mail = token])

forgot_password(db, t, email) ==
  LET found == {i \in Ids(db) : db.users[i].email = email}
  IN
  IF found = {}
  THEN Result(db, Response("forgot_password", 200,
                           "If email exists, password reset link has been sent"))
  ELSE
  LET u == First(found)
      token == generate_token(db)
  IN
  Result([db EXCEPT
            !.rtokens =
              {IF r.user_id = u /\ ~r.used THEN [r EXCEPT !.used = TRUE] ELSE r : r \in @}
              \cup {[user_id |-> u, token |-> token,
                     expires_at |-> t + Hours(PASSWORD_RESET_TOKEN_EXPIRE_HOURS),
                     used |-> FALSE]},
            !.nextTok = token],
         [Response("forgot_password", 200, "Password reset link sent to your email")
            EXCEPT !.user = u, !.mail = token])

(* Variant: the token is not marked used. *)
reset_password_reusable(db, t, token, new_password, salt) ==
  IF ~PasswordFieldOk(new_password)
  THEN Result(db, [Response("reset_password", 422, "validation error")
                     EXCEPT !.opaque = token])
  ELSE IF ~validate_password_strength(new_password).is_valid
  THEN Result(db, [Response("reset_password", 400, "Password does not meet requirements")
                     EXCEPT !.opaque = token])
  ELSE
  LET rows == {r \in db.rtokens : r.token = token /\ r.used = FALSE}
  IN
  IF rows = {}
  THEN Result(db, [Response("reset_password", 400, "Invalid or expired reset token")
                     EXCEPT !.opaque = token])
  ELSE
  LET token_obj == CHOOSE r \in rows : TRUE
      u == token_obj.user_id
  IN
  IF token_obj.expires_at < t
  THEN Result(db, [Response("reset_password", 400, "Reset token has expired")
                     EXCEPT !.user = u, !.opaque = token])
  ELSE IF u \notin Ids(db)
  THEN Result(db, [Response("reset_password", 404, "User not found")
                     EXCEPT !.opaque = token])
  ELSE Result([db EXCEPT
                 !.users[u].hashed_password = get_password_hash(new_password, salt),
                 !.users[u].login_attempts = 0,
                 !.users[u].locked_until = NoTime],
              [Response("reset_password", 200, "Password reset successfully")
                 EXCEPT !.user = u, !.opaque = token])

(* Variant: the lockout state is kept. *)
reset_password_keeps_lock(db, t, token, new_password, salt) ==
  IF ~PasswordFieldOk(new_password)
  THEN Result(db, [Response("reset_password", 422, "validation error")
                     EXCEPT !.opaque = token])
  ELSE IF ~validate_password_strength(new_password).is_valid
  THEN Result(db, [Response("reset_password", 400, "Password does not meet requirements")
                     EXCEPT !.opaque = token])
  ELSE
  LET rows == {r \in db.rtokens : r.token = token /\ r.used = FALSE}
  IN
  IF rows = {}
  THEN Result(db, [Response("reset_password", 400, "Invalid or expired reset token")
                     EXCEPT !.opaque = token])
  ELSE
  LET token_obj == CHOOSE r \in rows : TRUE
      u == token_obj.user_id
  IN
  IF token_obj.expires_at < t
  THEN Result(db, [Response("reset_password", 400, "Reset token has expired")
                     EXCEPT !.user = u, !.opaque = token])
  ELSE IF u \notin Ids(db)
  THEN Result(db, [Response("reset_password", 404, "User not found")
                     EXCEPT !.opaque = token])
  ELSE Result([db EXCEPT
                 !.users[u].hashed_password = get_password_hash(new_password, salt),
                 !.rtokens = (@ \ {token_obj}) \cup {[token_obj EXCEPT !.used = TRUE]}],
              [Response("reset_password", 200, "Password reset successfully")
                 EXCEPT !.user = u, !.opaque = token])

(* Variant: the expiry of the token is not looked at. *)
reset_password_ignores_expiry(db, t, token, new_password, salt) ==
  IF ~PasswordFieldOk(new_password)
  THEN Result(db, [Response("reset_password", 422, "validation error")
                     EXCEPT !.opaque = token])
  ELSE IF ~validate_password_strength(new_password).is_valid
  THEN Result(db, [Response("reset_password", 400, "Password does not meet requirements")
                     EXCEPT !.opaque = token])
  ELSE
  LET rows == {r \in db.rtokens : r.token = token /\ r.used = FALSE}
  IN
  IF rows = {}
  THEN Result(db, [Response("reset_password", 400, "Invalid or expired reset token")
                     EXCEPT !.opaque = token])
  ELSE
  LET token_obj == CHOOSE r \in rows : TRUE
      u == token_obj.user_id
  IN
  IF u \notin Ids(db)
  THEN Result(db, [Response("reset_password", 404, "User not found")
                     EXCEPT !.opaque = token])
  ELSE Result([db EXCEPT
                 !.users[u].hashed_password = get_password_hash(new_password, salt),
                 !.users[u].login_attempts = 0,
                 !.users[u].locked_until = NoTime,
                 !.rtokens = (@ \ {token_obj}) \cup {[token_obj EXCEPT !.used = TRUE]}],
              [Response("reset_password", 200, "Password reset successfully")
                 EXCEPT !.user = u, !.opaque = token])

(* Variant: the token is looked up before the password policy is applied. *)
reset_password_token_first(db, t, token, new_password, salt) ==
  IF ~PasswordFieldOk(new_password)
  THEN Result(db, [Response("reset_password", 422, "validation error")
                     EXCEPT !.opaque = token])
  ELSE
  LET rows == {r \in db.rtokens : r.token = token /\ r.used = FALSE}
  IN
  IF rows = {}
  THEN Result(db, [Response("reset_password", 400, "Invalid or expired reset token")
                     EXCEPT !.opaque = token])
  ELSE
  LET token_obj == CHOOSE r \in rows : TRUE
      u == token_obj.user_id
  IN
  IF token_obj.expires_at < t
  THEN Result(db, [Response("reset_password", 400, "Reset token has expired")
                     EXCEPT !.user = u, !.opaque = token])
  ELSE IF ~validate_password_strength(new_password).is_valid
  THEN Result(db, [Response("reset_password", 400, "Password does not meet requirements")
                     EXCEPT !.opaque = token])
  ELSE IF u \notin Ids(db)
  THEN Result(db, [Response("reset_password", 404, "User not found")
                     EXCEPT !.opaque = token])
  ELSE Result([db EXCEPT
                 !.users[u].hashed_password = get_password_hash(new_password, salt),
                 !.users[u].login_attempts = 0,
                 !.users[u].locked_until = NoTime,
                 !.rtokens = (@ \ {token_obj}) \cup {[token_obj EXCEPT !.used = TRUE]}],
              [Response("reset_password", 200, "Password reset successfully")
                 EXCEPT !.user = u, !.opaque = token])

reset_password(db, t, token, new_password, salt) ==
  IF ~PasswordFieldOk(new_password)
  THEN Result(db, [Response("reset_password", 422, "validation error")
                     EXCEPT !.opaque = token])
  ELSE IF ~validate_password_strength(new_password).is_valid
  THEN Result(db, [Response("reset_password", 400, "Password does not meet requirements")
                     EXCEPT !.opaque = token])
  ELSE
  LET rows == {r \in db.rtokens : r.token = token /\ r.used = FALSE}
  IN
  IF rows = {}
  THEN Result(db, [Response("reset_password", 400, "Invalid or expired reset token")
                     EXCEPT !.opaque = token])
  ELSE
  LET token_obj == CHOOSE r \in rows : TRUE
      u == token_obj.user_id
  IN
  IF token_obj.expires_at < t
  THEN Result(db, [Response("reset_password", 400, "Reset token has expired")
                     EXCEPT !.user = u, !.opaque = token])
  ELSE IF u \notin Ids(db)
  THEN Result(db, [Response("reset_password", 404, "User not found")
                     EXCEPT !.opaque = token])
  ELSE Result([db EXCEPT
                 !.users[u].hashed_password = get_password_hash(new_password, salt),
                 !.users[u].login_attempts = 0,
                 !.users[u].locked_until = NoTime,
                 !.rtokens = (@ \ {token_obj}) \cup {[token_obj EXCEPT !.used = TRUE]}],
              [Response("reset_password", 200, "Password reset successfully")
                 EXCEPT !.user = u, !.opaque = token])

(* ---------------------------- change password -------------------------- *)
(* Variant: the policy is checked before the current password. *)
change_password_policy_first(db, t, token, current_password, new_password, salt) ==
  LET current_user == get_current_user(db, t, token)
  IN
  IF current_user = 0
  THEN Result(db, [Response("change_password", 401, "Invalid or expired token")
                     EXCEPT !.presented = token])
  ELSE IF ~db.users[current_user].is_verified
  THEN Result(db, [Response("change_password", 403, "Email not verified")
                     EXCEPT !.user = current_user, !.presented = token])
  ELSE IF ~PasswordFieldOk(new_password)
  THEN Result(db, [Response("change_password", 422, "validation error")
                     EXCEPT !.user = current_user, !.presented = token])
  ELSE IF ~validate_password_strength(new_password).is_valid
  THEN Result(db, [Response("change_password", 400, "Password does not meet requirements")
                     EXCEPT !.user = current_user, !.presented = token])
  ELSE IF ~verify_password(current_password, db.users[current_user].hashed_password)
  THEN Result(db, [Response("change_password", 401, "Current password is incorrect")
                     EXCEPT !.user = current_user, !.presented = token])
  ELSE Result([db EXCEPT
                 !.users[current_user].hashed_password =
                    get_password_hash(new_password, salt)],
              [Response("change_password", 200, "Password changed successfully")
                 EXCEPT !.user = current_user, !.presented = token])

(* Variant: a password change also clears the stored refresh token. *)
change_password_ends_sessions(db, t, token, current_password, new_password, salt) ==
  LET current_user == get_current_user(db, t, token)
  IN
  IF current_user = 0
  THEN Result(db, [Response("change_password", 401, "Invalid or expired token")
                     EXCEPT !.presented = token])
  ELSE IF ~db.users[current_user].is_verified
  THEN Result(db, [Response("change_password", 403, "Email not verified")
                     EXCEPT !.user = current_user, !.presented = token])
  ELSE IF ~PasswordFieldOk(new_password)
  THEN Result(db, [Response("change_password", 422, "validation error")
                     EXCEPT !.user = current_user, !.presented = token])
  ELSE IF ~verify_password(current_password, db.users[current_user].hashed_password)
  THEN Result(db, [Response("change_password", 401, "Current password is incorrect")
                     EXCEPT !.user = current_user, !.presented = token])
  ELSE IF ~validate_password_strength(new_password).is_valid
  THEN Result(db, [Response("change_password", 400, "Password does not meet requirements")
                     EXCEPT !.user = current_user, !.presented = token])
  ELSE Result([db EXCEPT
                 !.users[current_user].hashed_password =
                    get_password_hash(new_password, salt),
                 !.users[current_user].refresh_token = NoToken],
              [Response("change_password", 200, "Password changed successfully")
                 EXCEPT !.user = current_user, !.presented = token])

change_password(db, t, token, current_password, new_password, salt) ==
  LET current_user == get_current_user(db, t, token)
  IN
  IF current_user = 0
  THEN Result(db, [Response("change_password", 401, "Invalid or expired token")
                     EXCEPT !.presented = token])
  ELSE IF ~db.users[current_user].is_verified
  THEN Result(db, [Response("change_password", 403, "Email not verified")
                     EXCEPT !.user = current_user, !.presented = token])
  ELSE IF ~PasswordFieldOk(new_password)
  THEN Result(db, [Response("change_password", 422, "validation error")
                     EXCEPT !.user = current_user, !.presented = token])
  ELSE IF ~verify_password(current_password, db.users[current_user].hashed_password)
  THEN Result(db, [Response("change_password", 401, "Current password is incorrect")
                     EXCEPT !.user = current_user, !.presented = token])
  ELSE IF ~validate_password_strength(new_password).is_valid
  THEN Result(db, [Response("change_password", 400, "Password does not meet requirements")
                     EXCEPT !.user = current_user, !.presented = token])
  ELSE Result([db EXCEPT
                 !.users[current_user].hashed_password =
                    get_password_hash(new_password, salt)],
              [Response("change_password", 200, "Password changed successfully")
                 EXCEPT !.user = current_user, !.presented = token])

(* -------------------------- projects and chat -------------------------- *)
(* Variant: the gate lets every authenticated user through. *)
get_current_verified_user_open(db, t, token) ==
  LET current_user == get_current_user(db, t, token)
  IN IF current_user = 0 THEN [status |-> 401, user |-> 0]
     ELSE [status |-> 200, user |-> current_user]

(* get_current_verified_user: the user, or the status it raises.          *)
get_current_verified_user(db, t, token) ==
  LET current_user == get_current_user(db, t, token)
  IN IF current_user = 0 THEN [status |-> 401, user |-> 0]
     ELSE IF ~db.users[current_user].is_verified THEN [status |-> 403, user |-> current_user]
     ELSE [status |-> 200, user |-> current_user]

Refused(op, gate, token) ==
  [Response(op, gate.status, IF gate.status = 401 THEN "Invalid or expired token"
                             ELSE "Email not verified")
     EXCEPT !.user = gate.user, !.presented = token]

Done(op, status, user, token) ==
  [Response(op, status, "ok") EXCEPT !.user = user, !.presented = token]

NotFound(op, detail, user, token) ==
  [Response(op, 404, detail) EXCEPT !.user = user, !.presented = token]

Max(ids) == IF ids = {} THEN 0 ELSE CHOOSE i \in ids : \A j \in ids : j <= i

(* An integer primary key: one more than the largest in the table. *)
NextProjectId(db) == Max({project.id : project \in db.projects}) + 1

MessageIds(db) == UNION {project.messages : project \in db.projects}

NextMessageId(db) == Max(MessageIds(db)) + 1

Owned(db, project_id, user) ==
  {project \in db.projects : project.id = project_id /\ project.user_id = user}

AddMessages(db, project_id, ids) ==
  [db EXCEPT !.projects =
     {IF project.id = project_id
      THEN [project EXCEPT !.messages = @ \cup ids]
      ELSE project : project \in @}]

list_projects(db, t, token) ==
  LET gate == get_current_verified_user(db, t, token)
  IN IF gate.status # 200 THEN Result(db, Refused("list_projects", gate, token))
     ELSE Result(db, Done("list_projects", 200, gate.user, token))

create_project(db, t, token) ==
  LET gate == get_current_verified_user(db, t, token)
  IN IF gate.status # 200 THEN Result(db, Refused("create_project", gate, token))
     ELSE Result([db EXCEPT !.projects =
                    @ \cup {[id |-> NextProjectId(db), user_id |-> gate.user,
                             messages |-> {}]}],
                 Done("create_project", 201, gate.user, token))

get_project(db, t, token, project_id) ==
  LET gate == get_current_verified_user(db, t, token)
  IN IF gate.status # 200 THEN Result(db, Refused("get_project", gate, token))
     ELSE IF Owned(db, project_id, gate.user) = {}
     THEN Result(db, NotFound("get_project", "Project not found", gate.user, token))
     ELSE Result(db, Done("get_project", 200, gate.user, token))

create_chat_message(db, t, token, project_id, message_type) ==
  LET gate == get_current_verified_user(db, t, token)
  IN IF gate.status # 200 THEN Result(db, Refused("create_chat_message", gate, token))
     ELSE IF Owned(db, project_id, gate.user) = {}
     THEN Result(db, NotFound("create_chat_message", "Project not found", gate.user, token))
     ELSE IF message_type \notin {"user", "ai", "system"}
     THEN Result(db, [Response("create_chat_message", 400, "Invalid message type")
                        EXCEPT !.user = gate.user, !.presented = token])
     ELSE Result(AddMessages(db, project_id, {NextMessageId(db)}),
                 Done("create_chat_message", 201, gate.user, token))

get_chat_messages(db, t, token, project_id) ==
  LET gate == get_current_verified_user(db, t, token)
  IN IF gate.status # 200 THEN Result(db, Refused("get_chat_messages", gate, token))
     ELSE IF Owned(db, project_id, gate.user) = {}
     THEN Result(db, NotFound("get_chat_messages", "Project not found", gate.user, token))
     ELSE Result(db, Done("get_chat_messages", 200, gate.user, token))

delete_chat_message(db, t, token, message_id) ==
  LET gate == get_current_verified_user(db, t, token)
  IN IF gate.status # 200 THEN Result(db, Refused("delete_chat_message", gate, token))
     ELSE IF ~\E project \in db.projects :
                project.user_id = gate.user /\ message_id \in project.messages
     THEN Result(db, NotFound("delete_chat_message", "Message not found", gate.user, token))
     ELSE Result([db EXCEPT !.projects =
                    {[project EXCEPT !.messages = @ \ {message_id}] : project \in @}],
                 Done("delete_chat_message", 204, gate.user, token))

(* websocket.py get_user_from_token: 0 stands for the 401 it raises. *)
get_user_from_token(db, t, token) ==
  LET payload == decode_access_token(token, t)
  IN IF ~payload.valid THEN 0
     ELSE IF payload.sub \notin Ids(db) THEN 0
     ELSE payload.sub

(* The WebSocket chat up to the end of its first exchange: the connection  *)
(* is closed (1008) before the message loop, or the loop is entered (101), *)
(* a prompt is received and saved and the answer of the AI is saved.       *)
websocket_chat(db, t, token, project_id) ==
  IF token = NoToken
  THEN Result(db, Response("websocket_chat", 1008, "Missing authentication token"))
  ELSE
  LET user == get_user_from_token(db, t, token)
      user_message == NextMessageId(db)
  IN IF user = 0
     THEN Result(db, [Response("websocket_chat", 1008, "Authentication failed")
                        EXCEPT !.presented = token])
     ELSE IF Owned(db, project_id, user) = {}
     THEN Result(db, [Response("websocket_chat", 1008, "Project not found")
                        EXCEPT !.user = user, !.presented = token])
     ELSE Result(AddMessages(db, project_id, {user_message, user_message + 1}),
                 Done("websocket_chat", 101, user, token))

(* ------------------------------- state --------------------------------- *)
VARIABLES
  now,             \* datetime.utcnow(), in seconds
  EMAIL_ENABLED,   \* settings.EMAIL_ENABLED
  users,           \* table users
  vtokens,         \* table verification_tokens
  rtokens,         \* table password_reset_tokens
  nextTok,         \* number of opaque tokens generated so far
  last,            \* the last request that wrote to the database: op, status, user
  issued,          \* the refresh tokens returned to clients so far
  streak,          \* per user: wrong-password logins since the account was clean
  projects,        \* table projects, each row with the ids of its chat messages
  sessions,        \* per worker process: the reset_password request it is serving
  probe            \* a call of a function of security.py: arguments and results

vars == <<now, EMAIL_ENABLED, users, vtokens, rtokens, nextTok, last, issued, streak,
          projects, sessions, probe>>

Db ==
  [users |-> users, vtokens |-> vtokens, rtokens |-> rtokens, nextTok |-> nextTok,
   projects |-> projects]

Procs == 1..NumProcs

(* No request in a worker process; no call of a function under study. *)
Idle == [pc |-> "idle"]

UserIds == DOMAIN users

Init ==
  /\ now = 0
  /\ EMAIL_ENABLED \in BOOLEAN
  /\ users = <<>>
  /\ vtokens = {}
  /\ rtokens = {}
  /\ nextTok = 0
  /\ last = Summary(Response("none", 0, "none"))
  /\ issued = {}
  /\ streak = <<>>
  /\ projects = {}
  /\ sessions = [p \in Procs |-> Idle]
  /\ probe = Idle

(* The streak of a user counts the wrong-password logins made for the     *)
(* account since it was last clean (no failed attempt counted, no lock),   *)
(* up to MAX_LOGIN_ATTEMPTS.  wrong is the user a wrong-password login     *)
(* was made for, 0 for any other request.                                  *)
Clean(user) == user.login_attempts = 0 /\ user.locked_until = NoTime

WrongPasswordFor(raw_identifier, password) ==
  LET found == FindByIdentifier(Db, Lower(sanitize_input(raw_identifier)))
  IN IF found = {} THEN 0
     ELSE IF verify_password(password, users[First(found)].hashed_password) THEN 0
     ELSE First(found)

StreakAfter(r, wrong) ==
  [i \in Ids(r.db) |->
     IF i = wrong
     THEN (IF streak[i] < MAX_LOGIN_ATTEMPTS THEN streak[i] + 1 ELSE streak[i])
     ELSE IF Clean(r.db.users[i]) THEN 0
     ELSE streak[i]]

WithinBoundsFor(db, max_users) ==
  /\ Len(db.users) <= max_users
  /\ db.nextTok <= MaxTokens
  /\ \A i \in Ids(db) : db.users[i].login_attempts <= MaxAttempts
  /\ Cardinality(db.projects) <= MaxProjects
  /\ \A project \in db.projects : Cardinality(project.messages) <= MaxMessages

WithinBounds(db) == WithinBoundsFor(db, MaxUsers)

(* The writes of a request are committed and its response is sent. *)
CommitFor(r, wrong, max_users) ==
  /\ WithinBoundsFor(r.db, max_users)
  /\ users' = r.db.users
  /\ vtokens' = r.db.vtokens
  /\ rtokens' = r.db.rtokens
  /\ nextTok' = r.db.nextTok
  /\ streak' = StreakAfter(r, wrong)
  /\ last' = IF r.db # Db THEN Summary(r.resp) ELSE last
  /\ issued' = IF r.resp.refresh_token # NoToken
               THEN issued \cup {r.resp.refresh_token}
               ELSE issued
  /\ projects' = r.db.projects
  /\ UNCHANGED <<now, EMAIL_ENABLED>>

Commit(r, wrong) == CommitFor(r, wrong, MaxUsers)

(* A request served from start to end by one process. *)
Serve(r, wrong) == Commit(r, wrong) /\ UNCHANGED <<sessions, probe>>

(* The clock moves forward between requests. *)
Advance ==
  /\ \E t \in Instants : t > now /\ now' = t
  /\ UNCHANGED <<EMAIL_ENABLED, users, vtokens, rtokens, nextTok, last, issued, streak,
                 projects, sessions, probe>>

(* Tokens a client can present as a refresh token: every refresh token the *)
(* service can have issued up to now, the same claims signed with another  *)
(* key, an access token, and a string that is not a token.                 *)
Subjects == 1..(MaxUsers + 1)

PastInstants == {i \in (IF now \in Instants THEN Instants ELSE LongInstants) : i <= now}

PresentableRefresh ==
  {create_refresh_token(s, t) : s \in Subjects, t \in PastInstants}
    \cup {jwt_encode(s, <<>>, now + Days(REFRESH_TOKEN_EXPIRE_DAYS), "refresh", ATTACKER_KEY) :
            s \in Subjects}
    \cup {create_access_token(s, users[s].username, now) : s \in UserIds}
    \cup {Garbage}

(* Tokens a client can present as an access token. *)
PresentableAccess ==
  {create_access_token(s, users[s].username, t) : s \in UserIds, t \in PastInstants}
    \cup {jwt_encode(s, <<>>, now + Minutes(ACCESS_TOKEN_EXPIRE_MINUTES), "access", ATTACKER_KEY) :
            s \in Subjects}
    \cup {create_refresh_token(s, now) : s \in UserIds}
    \cup {Garbage}

OpaqueTokens == 1..MaxTokens

Salts == 1..NumSalts

Signup ==
  \E raw_username \in RawUsernames, raw_email \in RawEmails,
     password \in SignupPasswords, salt \in Salts :
    Serve(signup(Db, now, EMAIL_ENABLED, raw_username, raw_email, password, salt), 0)

Login ==
  \E raw_identifier \in RawIdentifiers, password \in LoginPasswords :
    Serve(login(Db, now, EMAIL_ENABLED, raw_identifier, password),
          WrongPasswordFor(raw_identifier, password))

RefreshToken == \E token \in PresentableRefresh : Serve(refresh_token(Db, now, token), 0)

Logout == \E token \in PresentableAccess : Serve(logout(Db, now, token), 0)

VerifyEmail == \E token \in OpaqueTokens : Serve(verify_email(Db, now, token), 0)

ResendVerification == \E email \in RawEmails : Serve(resend_verification(Db, now, email), 0)

ForgotPassword == \E email \in RawEmails : Serve(forgot_password(Db, now, email), 0)

ResetPassword ==
  \E token \in OpaqueTokens, new_password \in Passwords, salt \in Salts :
    Serve(reset_password(Db, now, token, new_password, salt), 0)

(* The bearer tokens of a client that changes its password: an access     *)
(* token made now for a user, or no usable token.                          *)
CurrentAccess == {create_access_token(s, users[s].username, now) : s \in UserIds} \cup {Garbage}

ChangePassword ==
  \E token \in CurrentAccess, current_password \in LoginPasswords,
     new_password \in NewPasswords, salt \in Salts :
    Serve(change_password(Db, now, token, current_password, new_password, salt), 0)

Next ==
  \/ Advance
  \/ Signup
  \/ Login
  \/ RefreshToken
  \/ Logout
  \/ VerifyEmail
  \/ ResendVerification
  \/ ForgotPassword
  \/ ResetPassword
  \/ ChangePassword

Spec == Init /\ [][Next]_vars

(* The same service observed over a week. *)
AdvanceLong ==
  /\ \E t \in LongInstants : t > now /\ now' = t
  /\ UNCHANGED <<EMAIL_ENABLED, users, vtokens, rtokens, nextTok, last, issued, streak,
                 projects, sessions, probe>>

NextLong ==
  \/ AdvanceLong
  \/ Signup
  \/ Login
  \/ RefreshToken
  \/ Logout
  \/ VerifyEmail
  \/ ResendVerification
  \/ ForgotPassword
  \/ ResetPassword
  \/ ChangePassword

SpecLong == Init /\ [][NextLong]_vars

(* Sessions and password changes over time, without the emailed tokens. *)
NextChange ==
  \/ Advance
  \/ Signup
  \/ Login
  \/ Logout
  \/ ChangePassword

SpecChange == Init /\ [][NextChange]_vars

(* Password resets by emailed token over the long run of time. *)
NextReset ==
  \/ AdvanceLong
  \/ Signup
  \/ ForgotPassword
  \/ ResetPassword

SpecReset == Init /\ [][NextReset]_vars

(* reset_password served by worker processes, each with a database        *)
(* session of its own: the reads of a request (lines 506-527) and its      *)
(* writes with the commit (lines 530-535) are two steps, and steps of      *)
(* other requests can come between them.                                   *)
reset_password_reads(db, t, token, new_password, salt) ==
  LET rows == {r \in db.rtokens : r.token = token /\ r.used = FALSE}
      token_obj == CHOOSE r \in rows : TRUE
  IN
  IF ~PasswordFieldOk(new_password)
  THEN [pc |-> "done", token |-> token, status |-> 422]
  ELSE IF ~validate_password_strength(new_password).is_valid
  THEN [pc |-> "done", token |-> token, status |-> 400]
  ELSE IF rows = {}
  THEN [pc |-> "done", token |-> token, status |-> 400]
  ELSE IF token_obj.expires_at < t
  THEN [pc |-> "done", token |-> token, status |-> 400]
  ELSE IF token_obj.user_id \notin Ids(db)
  THEN [pc |-> "done", token |-> token, status |-> 404]
  ELSE [pc |-> "loaded", token |-> token, status |-> 0,
        user |-> token_obj.user_id, new_password |-> new_password, salt |-> salt]

(* The UPDATE statements of the commit address the rows by primary key. *)
reset_password_writes(db, session) ==
  Result([db EXCEPT
            !.users[session.user].hashed_password =
               get_password_hash(session.new_password, session.salt),
            !.users[session.user].login_attempts = 0,
            !.users[session.user].locked_until = NoTime,
            !.rtokens = {IF r.token = session.token THEN [r EXCEPT !.used = TRUE] ELSE r :
                           r \in @}],
         [Response("reset_password", 200, "Password reset successfully")
            EXCEPT !.user = session.user, !.opaque = session.token])

ResetPasswordBegin(p) ==
  /\ sessions[p].pc = "idle"
  /\ \E token \in OpaqueTokens, new_password \in LoginPasswords, salt \in Salts :
       sessions' = [sessions EXCEPT
                      ![p] = reset_password_reads(Db, now, token, new_password, salt)]
  /\ UNCHANGED <<now, EMAIL_ENABLED, users, vtokens, rtokens, nextTok, last, issued, streak,
                 projects, probe>>

ResetPasswordCommit(p) ==
  /\ sessions[p].pc = "loaded"
  /\ Commit(reset_password_writes(Db, sessions[p]), 0)
  /\ sessions' = [sessions EXCEPT ![p] = [pc |-> "done", token |-> @.token, status |-> 200]]
  /\ UNCHANGED probe

ResetPasswordEnd(p) ==
  /\ sessions[p].pc = "done"
  /\ sessions' = [sessions EXCEPT ![p] = Idle]
  /\ UNCHANGED <<now, EMAIL_ENABLED, users, vtokens, rtokens, nextTok, last, issued, streak,
                 projects, probe>>

NextRace ==
  \/ Signup
  \/ ForgotPassword
  \/ \E p \in Procs : ResetPasswordBegin(p)
  \/ \E p \in Procs : ResetPasswordCommit(p)
  \/ \E p \in Procs : ResetPasswordEnd(p)

SpecRace == Init /\ [][NextRace]_vars

(* The password functions of core/security.py on their own: a password p  *)
(* is validated and hashed, and a candidate q is verified against the      *)
(* hash.                                                                   *)
InitPasswords ==
  /\ now = 0
  /\ EMAIL_ENABLED = FALSE
  /\ users = <<>>
  /\ vtokens = {}
  /\ rtokens = {}
  /\ nextTok = 0
  /\ last = Summary(Response("none", 0, "none"))
  /\ issued = {}
  /\ streak = <<>>
  /\ projects = {}
  /\ sessions = [p \in Procs |-> Idle]
  /\ probe \in [pc : {"drawn"}, p : ProbePasswords, q : ProbePasswords]

ServiceUnchanged ==
  UNCHANGED <<now, EMAIL_ENABLED, users, vtokens, rtokens, nextTok, last, issued, streak,
              projects, sessions>>

ValidatePasswordStrength ==
  /\ probe.pc = "drawn"
  /\ probe' = [pc |-> "validated", p |-> probe.p, q |-> probe.q,
               strength |-> validate_password_strength(probe.p)]
  /\ ServiceUnchanged

GetPasswordHash ==
  /\ probe.pc = "validated"
  /\ \E salt \in Salts :
       probe' = [pc |-> "hashed", p |-> probe.p, q |-> probe.q,
                 strength |-> probe.strength,
                 hashed_password |-> get_password_hash(probe.p, salt)]
  /\ ServiceUnchanged

VerifyPassword ==
  /\ probe.pc = "hashed"
  /\ probe' = [pc |-> "verified", p |-> probe.p, q |-> probe.q,
               strength |-> probe.strength,
               hashed_password |-> probe.hashed_password,
               own |-> verify_password(probe.p, probe.hashed_password),
               other |-> verify_password(probe.q, probe.hashed_password)]
  /\ ServiceUnchanged

NextPasswords ==
  \/ ValidatePasswordStrength
  \/ GetPasswordHash
  \/ VerifyPassword

SpecPasswords == InitPasswords /\ [][NextPasswords]_vars

(* Wrong-password logins served by worker processes.  The request loads   *)
(* the user row, finds the account unlocked and the password wrong (lines  *)
(* 252-263); increment_login_attempts then adds one to the value it loaded  *)
(* and commits, and the UPDATE writes the columns that were assigned.      *)
LoginBegin(p) ==
  /\ sessions[p].pc = "idle"
  /\ \E raw_identifier \in RawIdentifiers, password \in LoginPasswords :
       LET found == FindByIdentifier(Db, Lower(sanitize_input(raw_identifier)))
           u == First(found)
       IN /\ found # {}
          /\ ~check_account_locked(users[u], now)
          /\ ~verify_password(password, users[u].hashed_password)
          /\ sessions' = [sessions EXCEPT
                            ![p] = [pc |-> "failed", user |-> u, loaded |-> users[u]]]
  /\ UNCHANGED <<now, EMAIL_ENABLED, users, vtokens, rtokens, nextTok, last, issued, streak,
                 projects, probe>>

LoginCommit(p) ==
  /\ sessions[p].pc = "failed"
  /\ LET u == sessions[p].user
         after == increment_login_attempts(sessions[p].loaded, now)
     IN Commit(Result([Db EXCEPT
                         !.users[u].login_attempts = after.login_attempts,
                         !.users[u].locked_until =
                            IF after.locked_until # sessions[p].loaded.locked_until
                            THEN after.locked_until
                            ELSE @],
                      login_wrong_password_response(u)),
               u)
  /\ sessions' = [sessions EXCEPT ![p] = Idle]
  /\ UNCHANGED probe

NextLogins ==
  \/ Signup
  \/ Login
  \/ \E p \in Procs : LoginBegin(p)
  \/ \E p \in Procs : LoginCommit(p)

SpecLogins == Init /\ [][NextLogins]_vars

(* refresh step by step in a worker process: the token is decoded and the  *)
(* user row read and compared; the new pair is made and the row written    *)
(* and committed; the pair is returned.  The row is read without a lock.   *)
refresh_token_reads(db, t, token) ==
  LET payload == decode_refresh_token(token, t)
      user_id == payload.sub
  IN
  IF ~payload.valid
  THEN [pc |-> "answered", presented |-> token, status |-> 401, refresh_token |-> NoToken]
  ELSE IF user_id \notin Ids(db) \/ db.users[user_id].refresh_token # token
  THEN [pc |-> "answered", presented |-> token, status |-> 401, refresh_token |-> NoToken]
  ELSE [pc |-> "checked", presented |-> token, status |-> 0, refresh_token |-> NoToken,
        user |-> user_id]

refresh_token_writes(db, t, session) ==
  LET access_token == create_access_token(session.user, db.users[session.user].username, t)
      new_refresh_token == create_refresh_token(session.user, t)
  IN
  Result([db EXCEPT !.users[session.user].refresh_token = new_refresh_token],
         [Response("refresh", 200, "ok") EXCEPT
            !.user = session.user, !.presented = session.presented,
            !.access_token = access_token, !.refresh_token = new_refresh_token])

RefreshBegin(p) ==
  /\ sessions[p].pc = "idle"
  /\ \E token \in issued :
       sessions' = [sessions EXCEPT ![p] = refresh_token_reads(Db, now, token)]
  /\ UNCHANGED <<now, EMAIL_ENABLED, users, vtokens, rtokens, nextTok, last, issued, streak,
                 projects, probe>>

RefreshCommit(p) ==
  /\ sessions[p].pc = "checked"
  /\ LET r == refresh_token_writes(Db, now, sessions[p])
     IN /\ Commit(r, 0)
        /\ sessions' = [sessions EXCEPT
                          ![p] = [pc |-> "answered", presented |-> @.presented,
                                  status |-> 200,
                                  refresh_token |-> r.resp.refresh_token]]
  /\ UNCHANGED probe

RefreshEnd(p) ==
  /\ sessions[p].pc = "answered"
  /\ sessions' = [sessions EXCEPT ![p] = Idle]
  /\ UNCHANGED <<now, EMAIL_ENABLED, users, vtokens, rtokens, nextTok, last, issued, streak,
                 projects, probe>>

NextRefresh ==
  \/ Advance
  \/ Signup
  \/ Login
  \/ \E p \in Procs : RefreshBegin(p)
  \/ \E p \in Procs : RefreshCommit(p)
  \/ \E p \in Procs : RefreshEnd(p)

SpecRefresh == Init /\ [][NextRefresh]_vars

(* Email delivery.  The handlers commit and then hand the mail to a        *)
(* background job,  which runs after the response has been sent and holds  *)
(* no database session; EmailService._send_email turns every SMTP error    *)
(* into the return value False, which the job drops.                       *)
send_email(enabled, smtp_ok) == IF ~enabled THEN TRUE ELSE smtp_ok

(* Variant: a failed delivery deletes the token that was mailed. *)
deliver_or_rollback(db, mail, enabled, smtp_ok) ==
  IF send_email(enabled, smtp_ok) THEN db
  ELSE [db EXCEPT !.vtokens = {v \in @ : v.token # mail},
                  !.rtokens = {r \in @ : r.token # mail}]

deliver(db, mail, enabled, smtp_ok) == db

Queued(outbox) == IF outbox.pc = "mail" THEN outbox.queued ELSE {}

Failed(outbox) == IF outbox.pc = "mail" THEN outbox.failed ELSE {}

QueueMail(r) ==
  /\ Commit(r, 0)
  /\ probe' = IF r.resp.mail = 0 THEN probe
              ELSE [pc |-> "mail", queued |-> Queued(probe) \cup {r.resp.mail},
                    failed |-> Failed(probe)]
  /\ UNCHANGED sessions

SignupMail ==
  \E raw_username \in RawUsernames, raw_email \in RawEmails, salt \in Salts :
    QueueMail(signup(Db, now, EMAIL_ENABLED, raw_username, raw_email, PwA, salt))

ResendVerificationMail ==
  \E email \in RawEmails : QueueMail(resend_verification(Db, now, email))

ForgotPasswordMail ==
  \E email \in RawEmails : QueueMail(forgot_password(Db, now, email))

SendEmail ==
  /\ probe.pc = "mail"
  /\ \E mail \in probe.queued, smtp_ok \in BOOLEAN :
       LET after == deliver(Db, mail, EMAIL_ENABLED, smtp_ok)
       IN /\ users' = after.users
          /\ vtokens' = after.vtokens
          /\ rtokens' = after.rtokens
          /\ nextTok' = after.nextTok
          /\ projects' = after.projects
          /\ probe' = [pc |-> "mail", queued |-> probe.queued \ {mail},
                       failed |-> probe.failed \cup
                                    (IF send_email(EMAIL_ENABLED, smtp_ok) THEN {} ELSE {mail})]
  /\ UNCHANGED <<now, EMAIL_ENABLED, last, issued, streak, sessions>>

NextMail ==
  \/ SignupMail
  \/ ResendVerificationMail
  \/ ForgotPasswordMail
  \/ VerifyEmail
  \/ SendEmail

SpecMail == Init /\ [][NextMail]_vars

(* Registration and email verification with several accounts.  The        *)
(* EMAIL_ENABLED setting is read when the service starts, so a restart     *)
(* can change it while the database stays.                                 *)
ServeAccounts(r, wrong) == CommitFor(r, wrong, MaxAccounts) /\ UNCHANGED <<sessions, probe>>

SignupAccount ==
  \E raw_username \in RawUsernames, raw_email \in RawEmails, salt \in Salts :
    ServeAccounts(signup(Db, now, EMAIL_ENABLED, raw_username, raw_email, PwA, salt), 0)

LoginAccount ==
  \E raw_identifier \in RawIdentifiers, password \in LoginPasswords :
    ServeAccounts(login(Db, now, EMAIL_ENABLED, raw_identifier, password),
                  WrongPasswordFor(raw_identifier, password))

VerifyEmailAccount ==
  \E token \in OpaqueTokens : ServeAccounts(verify_email(Db, now, token), 0)

ResendVerificationAccount ==
  \E email \in RawEmails : ServeAccounts(resend_verification(Db, now, email), 0)

Restart ==
  /\ EMAIL_ENABLED' \in BOOLEAN
  /\ UNCHANGED <<now, users, vtokens, rtokens, nextTok, last, issued, streak, projects,
                 sessions, probe>>

NextAccounts ==
  \/ SignupAccount
  \/ LoginAccount
  \/ VerifyEmailAccount
  \/ ResendVerificationAccount
  \/ Restart

SpecAccounts == Init /\ [][NextAccounts]_vars

(* The service with its projects and chat, observed at one instant: none   *)
(* of these operations reads the clock.                                    *)
ProjectIds == 1..(MaxProjects + 1)

MessageTypes == {"user", "tool"}

ListProjects == \E token \in PresentableAccess : Serve(list_projects(Db, now, token), 0)

CreateProject == \E token \in PresentableAccess : Serve(create_project(Db, now, token), 0)

GetProject ==
  \E token \in PresentableAccess, project_id \in ProjectIds :
    Serve(get_project(Db, now, token, project_id), 0)

CreateChatMessage ==
  \E token \in PresentableAccess, project_id \in ProjectIds, message_type \in MessageTypes :
    Serve(create_chat_message(Db, now, token, project_id, message_type), 0)

GetChatMessages ==
  \E token \in PresentableAccess, project_id \in ProjectIds :
    Serve(get_chat_messages(Db, now, token, project_id), 0)

DeleteChatMessage ==
  \E token \in PresentableAccess, message_id \in 1..MaxMessages :
    Serve(delete_chat_message(Db, now, token, message_id), 0)

WebsocketChat ==
  \E token \in PresentableAccess \cup {NoToken}, project_id \in ProjectIds :
    Serve(websocket_chat(Db, now, token, project_id), 0)

NextProjects ==
  \/ Signup
  \/ Login
  \/ RefreshToken
  \/ Logout
  \/ VerifyEmail
  \/ ResendVerification
  \/ ForgotPassword
  \/ ResetPassword
  \/ ChangePassword
  \/ ListProjects
  \/ CreateProject
  \/ GetProject
  \/ CreateChatMessage
  \/ GetChatMessages
  \/ DeleteChatMessage
  \/ WebsocketChat

SpecProjects == Init /\ [][NextProjects]_vars


(* ======================= properties of the service ===================== *)
Later(t) == {i \in Instants : i >= t}

(* What the caller sees of a response. *)
Visible(response) ==
  [status |-> response.status, detail |-> response.detail,
   minutes |-> response.minutes, access_token |-> response.access_token,
   refresh_token |-> response.refresh_token]

(* The identifier, as login normalises it, is the username or the email of u. *)
Designates(raw_identifier, u) ==
  LET identifier == Lower(sanitize_input(raw_identifier))
  IN users[u].email = identifier \/ users[u].username = identifier

Unknown(raw_identifier) == \A u \in UserIds : ~Designates(raw_identifier, u)

Locked(u) == users[u].locked_until # NoTime /\ now < users[u].locked_until

Correct(password, u) == verify_password(password, users[u].hashed_password)

RefreshSucceeds(db, t, token) == refresh_token(db, t, token).resp.status = 200

(* C1: after a successful refresh(t) a further refresh(t) with the old     *)
(* token fails with Invalid and a refresh with the newly returned token    *)
(* succeeds, for every user and whatever the time between issuing t and    *)
(* refreshing it, none included.                                           *)
C1_RotationRejectsOldToken ==
  \A token \in PresentableRefresh :
    LET r == refresh_token(Db, now, token)
    IN r.resp.status = 200 =>
         \A t2 \in Later(now) :
           /\ refresh_token(r.db, t2, token).resp.status = 401
           /\ refresh_token(r.db, t2, r.resp.refresh_token).resp.status = 200

(* C2: refresh(t) succeeds only if t is a refresh-kind token whose subject *)
(* is an existing user and t equals that user's stored refresh token; in   *)
(* every other case it fails with Invalid, returns no token and leaves the *)
(* stored refresh token of every user unchanged; so at most one refresh    *)
(* token value per user is accepted at any time.                           *)
C2_RefreshOnlyStoredToken ==
  /\ \A token \in PresentableRefresh \cup issued :
       LET r == refresh_token(Db, now, token)
       IN IF r.resp.status = 200
          THEN /\ token.kind = "jwt"
               /\ token.type = "refresh"
               /\ token.sub \in UserIds
               /\ users[token.sub].refresh_token = token
          ELSE /\ r.resp.status = 401
               /\ r.resp.detail \in {"Invalid or expired refresh token",
                                     "Invalid refresh token"}
               /\ r.resp.access_token = NoToken
               /\ r.resp.refresh_token = NoToken
               /\ Ids(r.db) = UserIds
               /\ \A i \in UserIds :
                    r.db.users[i].refresh_token = users[i].refresh_token
  /\ \A u \in UserIds :
       Cardinality({token \in PresentableRefresh \cup issued :
                      token.sub = u /\ RefreshSucceeds(Db, now, token)}) <= 1

(* A refresh went through, one returned token is accepted and another one, *)
(* returned earlier, is refused.                                           *)
C2_Witness ==
  /\ last.op = "refresh"
  /\ last.status = 200
  /\ \E token \in issued : RefreshSucceeds(Db, now, token)
  /\ \E token \in issued : token.sub = last.user /\ ~RefreshSucceeds(Db, now, token)

(* C3: after a successful login of a user, no refresh token returned by an *)
(* earlier successful login or refresh of that user succeeds in refresh,   *)
(* and the refresh token returned by this login does.                      *)
C3_LoginInvalidatesEarlierTokens ==
  \A raw_identifier \in RawIdentifiers, password \in LoginPasswords :
    LET r == login(Db, now, EMAIL_ENABLED, raw_identifier, password)
    IN r.resp.status = 200 =>
         \A t2 \in Later(now) :
           /\ \A token \in issued :
                token.sub = r.resp.user => ~RefreshSucceeds(r.db, t2, token)
           /\ RefreshSucceeds(r.db, t2, r.resp.refresh_token)

(* C4: after logout(user) every refresh call for that user, with any token *)
(* including the one stored before the logout, fails with Invalid until    *)
(* that user's next successful login.                                      *)
C4_LogoutClears ==
  \A token \in PresentableAccess :
    LET r == logout(Db, now, token)
    IN r.resp.status = 200 =>
         /\ r.resp.user = token.sub
         /\ r.resp.user \in UserIds
         /\ r.db.users[r.resp.user].refresh_token = NoToken
         /\ \A t2 \in Later(now) :
              \A rt \in PresentableRefresh \cup issued \cup {users[r.resp.user].refresh_token} :
                rt.sub = r.resp.user => refresh_token(r.db, t2, rt).resp.status = 401

C4_NoStoredTokenNoRefresh ==
  \A u \in UserIds :
    users[u].refresh_token = NoToken =>
      \A rt \in PresentableRefresh \cup issued :
        LET r == refresh_token(Db, now, rt)
        IN /\ rt.sub = u => r.resp.status = 401
           /\ ~(r.resp.status = 200 /\ r.resp.user = u)

C4_OnlyLoginRestores ==
  \A u \in UserIds :
    (users[u].refresh_token = NoToken /\ users'[u].refresh_token # NoToken)
      => (last'.op = "login" /\ last'.status = 200 /\ last'.user = u)

C4_LogoutEndsRefresh ==
  /\ [](C4_LogoutClears /\ C4_NoStoredTokenNoRefresh)
  /\ [][C4_OnlyLoginRestores]_vars

(* A logout has cleared the stored token of a user who held one. *)
C4_Witness ==
  /\ last.op = "logout"
  /\ last.status = 200
  /\ users[last.user].refresh_token = NoToken
  /\ \E token \in issued : token.sub = last.user

(* C5: from an account with no failed attempt counted and no lock,         *)
(* MAX_LOGIN_ATTEMPTS consecutive wrong-password logins set locked_until   *)
(* to now + the lockout duration, and every login for that account made    *)
(* while now < locked_until, with a right or a wrong password, fails with  *)
(* AccountLocked (423) and returns no tokens.                              *)
C5_LastFailureLocks ==
  \A u \in UserIds :
    (streak[u] = MAX_LOGIN_ATTEMPTS - 1 /\ streak'[u] = MAX_LOGIN_ATTEMPTS)
      => users'[u].locked_until = now + Minutes(LOCKOUT_DURATION_MINUTES)

C5_LockedRefusesLogin ==
  \A u \in UserIds, raw_identifier \in RawIdentifiers, password \in Passwords :
    (Designates(raw_identifier, u) /\ Locked(u)) =>
      LET r == login(Db, now, EMAIL_ENABLED, raw_identifier, password)
      IN /\ r.resp.status = 423
         /\ r.resp.access_token = NoToken
         /\ r.resp.refresh_token = NoToken

C5_LockoutAfterMaxFailures ==
  /\ []C5_LockedRefusesLogin
  /\ [][C5_LastFailureLocks]_vars

(* The last of MAX_LOGIN_ATTEMPTS consecutive wrong-password logins has    *)
(* just locked the account.                                                *)
C5_Witness ==
  \E u \in UserIds :
    /\ streak[u] = MAX_LOGIN_ATTEMPTS
    /\ last = [op |-> "login", status |-> 401, user |-> u]
    /\ users[u].locked_until = now + Minutes(LOCKOUT_DURATION_MINUTES)
    /\ \E password \in Passwords : Correct(password, u)

(* C6 as claimed: the response to the wrong-password login that brings the *)
(* failure counter up to MAX_LOGIN_ATTEMPTS is AccountLocked (423), the    *)
(* error kind of the next attempt made inside the lockout window.          *)
C6_LockingFailureReportsLocked ==
  \A u \in UserIds, raw_identifier \in RawIdentifiers, password \in LoginPasswords :
    (/\ Designates(raw_identifier, u)
     /\ ~Locked(u)
     /\ users[u].login_attempts = MAX_LOGIN_ATTEMPTS - 1
     /\ ~Correct(password, u)) =>
      login(Db, now, EMAIL_ENABLED, raw_identifier, password).resp.status = 423

(* C6 as amended: that response is the generic InvalidCredentials (401);   *)
(* the attempt locks the account, and the next attempt made inside the     *)
(* lockout window is the first to get AccountLocked (423).                 *)
C6_LockingFailureIsGeneric ==
  \A u \in UserIds, raw_identifier \in RawIdentifiers, password \in LoginPasswords :
    (/\ Designates(raw_identifier, u)
     /\ ~Locked(u)
     /\ users[u].login_attempts = MAX_LOGIN_ATTEMPTS - 1
     /\ ~Correct(password, u)) =>
      LET r == login(Db, now, EMAIL_ENABLED, raw_identifier, password)
          until == now + Minutes(LOCKOUT_DURATION_MINUTES)
      IN /\ r.resp.status = 401
         /\ r.resp.detail = "Incorrect email/username or password"
         /\ r.db.users[u].login_attempts = MAX_LOGIN_ATTEMPTS
         /\ r.db.users[u].locked_until = until
         /\ \A t2 \in Later(now), password2 \in LoginPasswords :
              t2 < until =>
                login(r.db, t2, EMAIL_ENABLED, raw_identifier, password2).resp.status = 423

(* One failure short of the threshold, after a counted failure, unlocked. *)
C6_Witness ==
  \E u \in UserIds :
    /\ users[u].login_attempts = MAX_LOGIN_ATTEMPTS - 1
    /\ ~Locked(u)
    /\ last = [op |-> "login", status |-> 401, user |-> u]
    /\ \E raw_identifier \in RawIdentifiers, password \in LoginPasswords :
         Designates(raw_identifier, u) /\ ~Correct(password, u)

(* C7: for a verified account whose lockout window has expired             *)
(* (locked_until set, now not before it), a login with the correct         *)
(* password succeeds, returns an access and a refresh token, and leaves    *)
(* the failure counter at 0 and locked_until empty.                        *)
C7_LoginAfterWindowResets ==
  \A u \in UserIds, raw_identifier \in RawIdentifiers, password \in Passwords :
    (/\ Designates(raw_identifier, u)
     /\ users[u].is_verified
     /\ users[u].locked_until # NoTime
     /\ ~(now < users[u].locked_until)
     /\ Correct(password, u)) =>
      LET r == login(Db, now, EMAIL_ENABLED, raw_identifier, password)
      IN /\ r.resp.status = 200
         /\ r.resp.access_token.kind = "jwt"
         /\ r.resp.access_token.type = "access"
         /\ r.resp.access_token.sub = u
         /\ r.resp.refresh_token.kind = "jwt"
         /\ r.resp.refresh_token.type = "refresh"
         /\ r.resp.refresh_token.sub = u
         /\ r.db.users[u].login_attempts = 0
         /\ r.db.users[u].locked_until = NoTime

(* A verified account with an expired lock, and a login that succeeds on it. *)
C7_Witness ==
  \E u \in UserIds, raw_identifier \in RawIdentifiers, password \in Passwords :
    /\ Designates(raw_identifier, u)
    /\ users[u].is_verified
    /\ users[u].locked_until # NoTime
    /\ ~(now < users[u].locked_until)
    /\ users[u].login_attempts >= MAX_LOGIN_ATTEMPTS
    /\ login(Db, now, EMAIL_ENABLED, raw_identifier, password).resp.status = 200

(* C8: a login made while the account is locked changes neither the        *)
(* failure counter nor locked_until nor the stored refresh token, whatever *)
(* the password; so attempts inside the window never extend it.            *)
C8_LockedLoginWritesNothing ==
  \A u \in UserIds, raw_identifier \in RawIdentifiers, password \in Passwords :
    (Designates(raw_identifier, u) /\ Locked(u)) =>
      LET r == login(Db, now, EMAIL_ENABLED, raw_identifier, password)
      IN /\ r.db.users[u].login_attempts = users[u].login_attempts
         /\ r.db.users[u].locked_until = users[u].locked_until
         /\ r.db.users[u].refresh_token = users[u].refresh_token

(* A locked account that holds a refresh token, reached late in its window. *)
C8_Witness ==
  \E u \in UserIds, raw_identifier \in RawIdentifiers :
    /\ Designates(raw_identifier, u)
    /\ Locked(u)
    /\ users[u].refresh_token # NoToken
    /\ users[u].locked_until < now + Minutes(LOCKOUT_DURATION_MINUTES)

(* C9 as claimed: in every reachable state a login with an identifier that *)
(* matches no user and a login with a registered identifier and a wrong    *)
(* password get the same InvalidCredentials (401) response.                *)
C9_WrongPasswordLikeUnknown ==
  \A u \in UserIds, raw_identifier \in RawIdentifiers,
     unknown \in RawIdentifiers, password \in LoginPasswords :
    (/\ Designates(raw_identifier, u)
     /\ ~Correct(password, u)
     /\ Unknown(unknown)) =>
      LET known == login(Db, now, EMAIL_ENABLED, raw_identifier, password).resp
          other == login(Db, now, EMAIL_ENABLED, unknown, password).resp
      IN known.status = 401 /\ Visible(known) = Visible(other)

(* C9 as amended: the two responses are the same InvalidCredentials (401)  *)
(* in every reachable state in which the account is not locked; while it   *)
(* is locked (now < locked_until) the wrong-password login gets            *)
(* AccountLocked (423) and the unknown identifier still gets 401.          *)
C9_WrongPasswordLikeUnknownUnlessLocked ==
  \A u \in UserIds, raw_identifier \in RawIdentifiers,
     unknown \in RawIdentifiers, password \in LoginPasswords :
    (/\ Designates(raw_identifier, u)
     /\ ~Correct(password, u)
     /\ Unknown(unknown)) =>
      LET known == login(Db, now, EMAIL_ENABLED, raw_identifier, password).resp
          other == login(Db, now, EMAIL_ENABLED, unknown, password).resp
      IN /\ other.status = 401
         /\ ~Locked(u) => Visible(known) = Visible(other)
         /\ Locked(u) => known.status = 423

(* An unlocked account on which a wrong-password login has been counted. *)
C9_Witness ==
  \E u \in UserIds, unknown \in RawIdentifiers :
    /\ Unknown(unknown)
    /\ ~Locked(u)
    /\ users[u].login_attempts > 0
    /\ last = [op |-> "login", status |-> 401, user |-> u]

(* C10: for a valid, unexpired verification token t of an unverified user, *)
(* two successive verify_email(t) calls both succeed: the first sets       *)
(* verified and consumes the token, the second returns success and changes *)
(* no state.                                                               *)
C10_VerifyEmailTwice ==
  \A token \in OpaqueTokens :
    \A row \in vtokens :
      (/\ row.token = token
       /\ ~(row.expires_at < now)
       /\ row.user_id \in UserIds
       /\ ~users[row.user_id].is_verified) =>
        LET first == verify_email(Db, now, token)
            second == verify_email(first.db, now, token)
        IN /\ first.resp.status = 200
           /\ first.db.users[row.user_id].is_verified
           /\ row \notin first.db.vtokens
           /\ second.resp.status = 200
           /\ second.db = first.db

(* The email, as given in the request, is the email of a user. *)
Registered(email) == \E u \in UserIds : users[u].email = email

(* C11: forgot_password returns the identical success message whether or   *)
(* not the email belongs to a registered user, and only for a registered   *)
(* user is a reset token issued and its delivery triggered.                *)
C11_ForgotPasswordSameMessage ==
  /\ \A e1 \in RawEmails, e2 \in RawEmails :
       Visible(forgot_password(Db, now, e1).resp)
         = Visible(forgot_password(Db, now, e2).resp)
  /\ \A email \in RawEmails :
       LET r == forgot_password(Db, now, email)
       IN IF Registered(email)
          THEN r.resp.mail # 0 /\ r.db.rtokens # rtokens
          ELSE r.resp.mail = 0 /\ r.db = Db

(* C12: resend_verification returns the same generic success message when  *)
(* the email matches no user, when the user is already verified and when   *)
(* a fresh verification token is issued and sent; a token is issued only   *)
(* in the third case.                                                      *)
C12_ResendVerificationSameMessage ==
  /\ \A e1 \in RawEmails, e2 \in RawEmails :
       Visible(resend_verification(Db, now, e1).resp)
         = Visible(resend_verification(Db, now, e2).resp)
  /\ \A email \in RawEmails :
       LET r == resend_verification(Db, now, email)
           unverified == \E u \in UserIds : users[u].email = email /\ ~users[u].is_verified
       IN IF unverified
          THEN r.resp.mail # 0 /\ r.db.vtokens # vtokens
          ELSE r.resp.mail = 0 /\ r.db = Db

(* C13: each reset token leads to at most one successful reset_password:   *)
(* a successful reset marks its token used, rows of the table are never    *)
(* removed and used only goes from false to true, no token value is        *)
(* stored twice, and reset_password with a consumed token fails (400,      *)
(* not found among the unused tokens) and leaves the password hash and     *)
(* the lockout state unchanged.                                            *)
C13_ConsumedTokenFails ==
  \A row \in rtokens :
    row.used =>
      \A new_password \in Passwords, salt \in Salts, t2 \in Later(now) :
        LET r == reset_password(Db, t2, row.token, new_password, salt)
        IN /\ r.resp.status \in {400, 422}
           /\ (validate_password_strength(new_password).is_valid =>
                 r.resp.detail = "Invalid or expired reset token")
           /\ r.db = Db

C13_SuccessConsumes ==
  \A token \in OpaqueTokens, new_password \in Passwords, salt \in Salts :
    LET r == reset_password(Db, now, token, new_password, salt)
    IN r.resp.status = 200 =>
         /\ \E row \in rtokens : row.token = token /\ ~row.used
         /\ \A row \in r.db.rtokens : row.token = token => row.used

C13_TokenValuesUnique ==
  \A r1 \in rtokens, r2 \in rtokens : r1.token = r2.token => r1 = r2

C13_UsedOnlyRises ==
  \A row \in rtokens :
    \/ row \in rtokens'
    \/ ~row.used /\ [row EXCEPT !.used = TRUE] \in rtokens'

C13_ResetTokenSingleUse ==
  /\ [](C13_ConsumedTokenFails /\ C13_SuccessConsumes /\ C13_TokenValuesUnique)
  /\ [][C13_UsedOnlyRises]_vars

(* A reset went through and its token is now a consumed one. *)
C13_Witness ==
  /\ last.op = "reset_password"
  /\ last.status = 200
  /\ \E row \in rtokens : row.used /\ row.user_id = last.user

(* C14: after forgot_password succeeds for a registered user every reset   *)
(* token issued to that user before is still in the table, marked used,    *)
(* and fails in reset_password; in every reachable state a user has at     *)
(* most one unused reset token.                                            *)
C14_PriorResetTokensInvalidated ==
  /\ \A email \in RawEmails :
       LET r == forgot_password(Db, now, email)
       IN r.resp.mail # 0 =>
            \A row \in rtokens :
              row.user_id = r.resp.user =>
                /\ [row EXCEPT !.used = TRUE] \in r.db.rtokens
                /\ \A new_password \in Passwords, salt \in Salts, t2 \in Later(now) :
                     reset_password(r.db, t2, row.token, new_password, salt).resp.status # 200
  /\ \A u \in UserIds :
       Cardinality({row \in rtokens : row.user_id = u /\ ~row.used}) <= 1

(* A second reset token was issued to a user: the first is kept, used. *)
C14_Witness ==
  /\ last.op = "forgot_password"
  /\ \E r1 \in rtokens, r2 \in rtokens :
       /\ r1.user_id = last.user /\ r2.user_id = last.user
       /\ r1.token < r2.token
       /\ r1.used /\ ~r2.used

(* C15: a successful reset_password(t, p) stores a hash of p for the owner *)
(* of the token and sets failed_count = 0 and locked_until = none, also    *)
(* when the account was locked; an immediately following login with p is   *)
(* not refused as locked (it succeeds, or is refused as not verified when  *)
(* verification is required), and one with the old password, p being a     *)
(* different one, fails with InvalidCredentials.                           *)
C15_ResetLiftsLockout ==
  \A token \in OpaqueTokens, p \in Passwords, salt \in Salts :
    LET r == reset_password(Db, now, token, p, salt)
        u == r.resp.user
    IN r.resp.status = 200 =>
         /\ u \in UserIds
         /\ \E row \in rtokens : row.token = token /\ row.user_id = u
         /\ r.db.users[u].hashed_password = get_password_hash(p, salt)
         /\ verify_password(p, r.db.users[u].hashed_password)
         /\ r.db.users[u].login_attempts = 0
         /\ r.db.users[u].locked_until = NoTime
         /\ \A raw_identifier \in RawIdentifiers :
              Designates(raw_identifier, u) =>
                /\ login(r.db, now, EMAIL_ENABLED, raw_identifier, p).resp.status
                     = (IF EMAIL_ENABLED /\ ~users[u].is_verified THEN 403 ELSE 200)
                /\ \A old \in Passwords :
                     (Correct(old, u) /\ old # p) =>
                       Visible(login(r.db, now, EMAIL_ENABLED, raw_identifier, old).resp)
                         = Visible(login_unknown_response)

(* A locked account holds an unused reset token that has not expired; the  *)
(* reset to another password goes through.                                 *)
C15_Witness ==
  \E u \in UserIds, row \in rtokens :
    /\ Locked(u)
    /\ row.user_id = u
    /\ Correct(PwA, u)
    /\ reset_password(Db, now, row.token, PwB, 1).resp.status = 200
    /\ \E raw_identifier \in RawIdentifiers :
         /\ Designates(raw_identifier, u)
         /\ login(Db, now, EMAIL_ENABLED, raw_identifier, PwB).resp.status = 423

(* The access token that login or refresh returned together with a refresh *)
(* token.                                                                  *)
AccessIssuedWith(token) ==
  create_access_token(token.sub, users[token.sub].username,
                      token.exp - Days(REFRESH_TOKEN_EXPIRE_DAYS))

(* C16: a bearer token whose expiry is in the past is never accepted:      *)
(* decode_access and decode_refresh return invalid for it, current_user    *)
(* fails with Unauthorized and refresh fails with Invalid, also when the   *)
(* token equals the stored refresh token of the user.                      *)
C16_ExpiredTokenRejected ==
  \A token \in issued :
    /\ token.exp < now =>
         /\ ~decode_refresh_token(token, now).valid
         /\ refresh_token(Db, now, token).resp.status = 401
    /\ AccessIssuedWith(token).exp < now =>
         /\ ~decode_access_token(AccessIssuedWith(token), now).valid
         /\ get_current_user(Db, now, AccessIssuedWith(token)) = 0

(* C17: decode_access accepts only tokens signed with the access secret    *)
(* and decode_refresh only tokens signed with the refresh secret: a token  *)
(* naming a user, with type = access and any other key, is not accepted    *)
(* by current_user, and one with type = refresh and any key other than     *)
(* the refresh secret is not accepted by decode_refresh or by refresh.     *)
C17_ForeignKeyRejected ==
  \A s \in UserIds :
    /\ \A key \in {REFRESH_SECRET_KEY, ATTACKER_KEY} :
         LET token == jwt_encode(s, users[s].username,
                                 now + Minutes(ACCESS_TOKEN_EXPIRE_MINUTES), "access", key)
         IN /\ ~decode_access_token(token, now).valid
            /\ get_current_user(Db, now, token) = 0
    /\ \A key \in {SECRET_KEY, ATTACKER_KEY} :
         LET token == jwt_encode(s, <<>>, now + Days(REFRESH_TOKEN_EXPIRE_DAYS), "refresh", key)
         IN /\ ~decode_refresh_token(token, now).valid
            /\ refresh_token(Db, now, token).resp.status = 401

(* Tokens of every type claim, signed with every key, expired or not. *)
TokenForms ==
  {jwt_encode(s, <<>>, exp, type, key) :
     s \in Subjects,
     exp \in {now - 1, now + Minutes(ACCESS_TOKEN_EXPIRE_MINUTES)},
     type \in {"access", "refresh", "none"},
     key \in {SECRET_KEY, REFRESH_SECRET_KEY, ATTACKER_KEY}}

(* C18: access and refresh tokens are not interchangeable: decode_access   *)
(* returns invalid for every token whose type claim is not access, every   *)
(* issued refresh token included, and decode_refresh for every token whose *)
(* type claim is not refresh, whether or not the signature verifies; a     *)
(* refresh token never authenticates current_user and an access token      *)
(* never succeeds in refresh.                                              *)
C18_TokenKindsNotInterchangeable ==
  \A token \in TokenForms \cup issued \cup PresentableAccess \cup PresentableRefresh :
    /\ token.type # "access" =>
         /\ ~decode_access_token(token, now).valid
         /\ get_current_user(Db, now, token) = 0
         /\ logout(Db, now, token).resp.status = 401
    /\ token.type # "refresh" =>
         /\ ~decode_refresh_token(token, now).valid
         /\ refresh_token(Db, now, token).resp.status = 401
         /\ refresh_token(Db, now, token).db = Db

(* A user holds a pair: each token of it works in its own place and is     *)
(* refused in the other.                                                   *)
C18_Witness ==
  \E token \in issued :
    /\ token.sub \in UserIds
    /\ users[token.sub].refresh_token = token
    /\ refresh_token(Db, now, token).resp.status = 200
    /\ get_current_user(Db, now, AccessIssuedWith(token)) = token.sub
    /\ get_current_user(Db, now, token) = 0
    /\ refresh_token(Db, now, AccessIssuedWith(token)).resp.status = 401

(* C19: a successful signup creates exactly one user, verified if and only *)
(* if email delivery is disabled, with failed_count = 0, no lock and no    *)
(* stored refresh token, and creates a verification token for that user,   *)
(* expiring 24 hours later, if and only if email delivery is enabled.      *)
C19_SignupCreatesUser ==
  \A raw_username \in RawUsernames, raw_email \in RawEmails,
     password \in Passwords, salt \in Salts :
    LET r == signup(Db, now, EMAIL_ENABLED, raw_username, raw_email, password, salt)
        id == Len(users) + 1
    IN r.resp.status = 201 =>
         /\ r.resp.user = id
         /\ Len(r.db.users) = id
         /\ \A i \in UserIds : r.db.users[i] = users[i]
         /\ r.db.users[id].is_verified = ~EMAIL_ENABLED
         /\ r.db.users[id].login_attempts = 0
         /\ r.db.users[id].locked_until = NoTime
         /\ r.db.users[id].refresh_token = NoToken
         /\ verify_password(password, r.db.users[id].hashed_password)
         /\ r.db.rtokens = rtokens
         /\ vtokens \subseteq r.db.vtokens
         /\ IF EMAIL_ENABLED
            THEN \E row \in r.db.vtokens :
                   /\ r.db.vtokens \ vtokens = {row}
                   /\ row.user_id = id
                   /\ row.expires_at = now + Hours(VERIFICATION_TOKEN_EXPIRE_HOURS)
                   /\ r.resp.mail = row.token
            ELSE r.db.vtokens = vtokens /\ r.resp.mail = 0

(* A signup with email delivery enabled went through: the user is not      *)
(* verified and holds a verification token.                                *)
C19_Witness ==
  /\ last.op = "signup"
  /\ last.status = 201
  /\ EMAIL_ENABLED
  /\ ~users[last.user].is_verified
  /\ \E row \in vtokens : row.user_id = last.user

(* C20: with email delivery disabled, after a successful signup(username,  *)
(* email, password) a login with that username or that email and the same  *)
(* password succeeds at once and returns an access and a refresh token,    *)
(* and no verification token is ever created or consumed for the user.     *)
C20_SignupThenLogin ==
  ~EMAIL_ENABLED =>
    /\ vtokens = {}
    /\ \A token \in OpaqueTokens : verify_email(Db, now, token).resp.status # 200
    /\ \A email \in RawEmails : resend_verification(Db, now, email).db = Db
    /\ \A raw_username \in RawUsernames, raw_email \in RawEmails,
          password \in Passwords, salt \in Salts :
         LET r == signup(Db, now, EMAIL_ENABLED, raw_username, raw_email, password, salt)
         IN r.resp.status = 201 =>
              /\ r.db.vtokens = {}
              /\ \A identifier \in {raw_username, raw_email} :
                   LET l == login(r.db, now, EMAIL_ENABLED, identifier, password)
                   IN /\ l.resp.status = 200
                      /\ l.resp.user = r.resp.user
                      /\ l.resp.access_token # NoToken
                      /\ l.resp.refresh_token # NoToken
                      /\ l.db.vtokens = {}

(* A user signed up with email delivery disabled and then logged in. *)
C20_Witness ==
  /\ ~EMAIL_ENABLED
  /\ last.op = "login"
  /\ last.status = 200
  /\ users[last.user].login_attempts = 0
  /\ users[last.user].refresh_token \in issued

(* No two users of db share an email or a username, letter case aside. *)
UniqueIdentities(db) ==
  \A i \in Ids(db), j \in Ids(db) :
    i # j =>
      /\ Lower(db.users[i].email) # Lower(db.users[j].email)
      /\ Lower(db.users[i].username) # Lower(db.users[j].username)

(* The username or the email is that of a user of db, letter case aside. *)
Taken(db, raw_username, raw_email) ==
  \E i \in Ids(db) :
    \/ Lower(db.users[i].email) = Lower(raw_email)
    \/ Lower(db.users[i].username) = Lower(raw_username)

(* A signup on db with an identity already registered fails, as a          *)
(* duplicate when the request is otherwise acceptable, and writes nothing. *)
DuplicateRefused(db, raw_username, raw_email, password, r) ==
  Taken(db, raw_username, raw_email) =>
    /\ r.resp.status # 201
    /\ r.db = db
    /\ r.resp.mail = 0
    /\ (PasswordFieldOk(password) /\ validate_password_strength(password).is_valid) =>
         /\ r.resp.status = 400
         /\ r.resp.detail \in {"Email already registered", "Username already taken"}

(* C21: in every reachable state no two users share an email or a username *)
(* compared case-insensitively, and this is kept by every signup, also by  *)
(* the one that adds a further user; a signup whose email or username is   *)
(* already registered, in any letter case, fails with DuplicateIdentity    *)
(* (its password being an acceptable one) and creates neither a user nor   *)
(* a token.                                                                *)
C21_IdentitiesUnique ==
  /\ UniqueIdentities(Db)
  /\ \A raw_username \in RawUsernames, raw_email \in RawEmails,
        password \in Passwords, salt \in Salts :
       LET r == signup(Db, now, EMAIL_ENABLED, raw_username, raw_email, password, salt)
       IN /\ UniqueIdentities(r.db)
          /\ DuplicateRefused(Db, raw_username, raw_email, password, r)
          /\ r.resp.status = 201 =>
               \A username2 \in RawUsernames, email2 \in RawEmails :
                 LET r2 == signup(r.db, now, EMAIL_ENABLED, username2, email2, PwA, salt)
                 IN /\ UniqueIdentities(r2.db)
                    /\ DuplicateRefused(r.db, username2, email2, PwA, r2)

(* A user is registered; a signup with the same username or the same email *)
(* in another letter case is refused and one with a new identity goes      *)
(* through.                                                                *)
C21_Witness ==
  /\ \E u \in UserIds :
       users[u].username = <<"a", "l", "i">> /\ users[u].email = <<"a", "@", "x">>
  /\ signup(Db, now, EMAIL_ENABLED, <<"A", "l", "i">>, <<"b", "@", "x">>, PwA, 1).resp.detail
       = "Username already taken"
  /\ signup(Db, now, EMAIL_ENABLED, <<"b", "o", "b">>, <<"A", "@", "x">>, PwA, 1).resp.detail
       = "Email already registered"
  /\ signup(Db, now, EMAIL_ENABLED, <<"b", "o", "b">>, <<"b", "@", "x">>, PwA, 1).resp.status
       = 201

(* C22: no protected operation outside authentication is carried out for   *)
(* a user whose verified flag is false: the project and chat operations    *)
(* fail with Forbidden for such a user and write nothing; the WebSocket    *)
(* chat, which has no verified gate, closes before its message loop for    *)
(* such a user, since every project belongs to a verified user and         *)
(* verified never goes from true back to false.                            *)
C22_GateRefusesUnverified ==
  \A token \in PresentableAccess \cup TokenForms :
    LET u == get_current_user(Db, now, token)
    IN (u # 0 /\ ~users[u].is_verified) =>
         /\ list_projects(Db, now, token).resp.status = 403
         /\ create_project(Db, now, token).resp.status = 403
         /\ create_project(Db, now, token).db = Db
         /\ \A project_id \in ProjectIds :
              /\ get_project(Db, now, token, project_id).resp.status = 403
              /\ get_chat_messages(Db, now, token, project_id).resp.status = 403
              /\ websocket_chat(Db, now, token, project_id).resp.status = 1008
              /\ websocket_chat(Db, now, token, project_id).db = Db
              /\ \A message_type \in MessageTypes :
                   LET r == create_chat_message(Db, now, token, project_id, message_type)
                   IN r.resp.status = 403 /\ r.db = Db
         /\ \A message_id \in 1..MaxMessages :
              LET r == delete_chat_message(Db, now, token, message_id)
              IN r.resp.status = 403 /\ r.db = Db

C22_ProjectsOfVerified ==
  \A project \in projects :
    project.user_id \in UserIds /\ users[project.user_id].is_verified

C22_VerifiedNeverDrops ==
  \A u \in UserIds : users[u].is_verified => (u \in DOMAIN users' /\ users'[u].is_verified)

C24_AtMostOneConcurrentReset ==
  \A p \in Procs, q \in Procs :
    (/\ p # q
     /\ sessions[p].pc = "done"
     /\ sessions[q].pc = "done"
     /\ sessions[p].token = sessions[q].token) =>
      ~(sessions[p].status = 200 /\ sessions[q].status = 200)

(* C25: for every password p of at most 72 bytes, verify(p, hash(p)) is    *)
(* true; for longer passwords only the first 72 bytes count:               *)
(* verify(q, hash(p)) is true whenever p and q share their first 72        *)
(* bytes, and false whenever the byte strings of p and q, each truncated   *)
(* to 72 bytes, differ.                                                    *)
C25_VerifyUsesFirst72Bytes ==
  probe.pc = "verified" =>
    LET FirstBytes(bytes, n) ==
          [i \in 1..(IF Len(bytes) < n THEN Len(bytes) ELSE n) |-> bytes[i]]
        bp == Utf8Encode(probe.p)
        bq == Utf8Encode(probe.q)
        same == FirstBytes(bp, BCRYPT_MAX_BYTES) = FirstBytes(bq, BCRYPT_MAX_BYTES)
    IN /\ probe.own
       /\ same => probe.other
       /\ ~same => ~probe.other

C25_Witness ==
  /\ probe.pc = "verified"
  /\ probe.p # probe.q
  /\ Len(Utf8Encode(probe.p)) > BCRYPT_MAX_BYTES
  /\ Len(probe.p) <= BCRYPT_MAX_BYTES
  /\ probe.own
  /\ probe.other

(* C26: validate(password) returns ok = true exactly when the violation    *)
(* list is empty, and the list holds one entry for each of the six rules   *)
(* the password violates and nothing else, each rule decided on its own;   *)
(* "short" yields at least the length, uppercase, digit and                *)
(* special-character violations.                                           *)
C26_AllViolationsReported ==
  probe.pc \in {"validated", "hashed", "verified"} =>
    LET errors == probe.strength.errors
        Rules == {TooShort, TooLong, NoUppercase, NoLowercase, NoDigit, NoSpecial}
        Lacks(password, class) == \A i \in 1..Len(password) : password[i] \notin class
        Violates(password, rule) ==
          CASE rule = TooShort -> Len(password) < 8
            [] rule = TooLong -> Len(password) > 72
            [] rule = NoUppercase -> Lacks(password, UpperChars)
            [] rule = NoLowercase -> Lacks(password, LowerChars)
            [] rule = NoDigit -> Lacks(password, DigitChars)
            [] rule = NoSpecial -> Lacks(password, SpecialChars)
        Entries(rule) == Cardinality({i \in 1..Len(errors) : errors[i] = rule})
    IN
    /\ probe.strength.is_valid <=> (errors = <<>>)
    /\ \A i \in 1..Len(errors) : errors[i] \in Rules
    /\ \A rule \in Rules :
         Entries(rule) = (IF Violates(probe.p, rule) THEN 1 ELSE 0)
    /\ probe.p = PwWordShort =>
         \A rule \in {TooShort, NoUppercase, NoDigit, NoSpecial} : Entries(rule) = 1

C26_Witness ==
  /\ probe.pc = "validated"
  /\ probe.p = PwWordShort
  /\ ~probe.strength.is_valid
  /\ Len(probe.strength.errors) = 4

(* C27: consuming an ephemeral token reports the token's state with        *)
(* distinct errors: an unknown token fails with TokenNotFound, a token     *)
(* past its expiry with TokenExpired (never merged with not-found), and a  *)
(* reset token whose used flag is set with TokenAlreadyUsed; in each       *)
(* failing case no user record and no token record changes.                *)
C27_DistinctTokenErrors ==
  LET UnissuedToken == MaxTokens + 1
      ResetError(token) == reset_password(Db, now, token, PwA, 1).resp.detail
      VerifyError(token) == verify_email(Db, now, token).resp.detail
  IN
  /\ \A r \in rtokens :
       LET result == reset_password(Db, now, r.token, PwA, 1) IN
       /\ r.used =>
            /\ result.resp.status # 200
            /\ result.db = Db
            /\ ResetError(r.token) # ResetError(UnissuedToken)
       /\ (~r.used /\ r.expires_at < now) =>
            /\ result.resp.status # 200
            /\ result.db = Db
            /\ ResetError(r.token) # ResetError(UnissuedToken)
  /\ \A r \in rtokens, q \in rtokens :
       (r.used /\ ~q.used /\ q.expires_at < now) => ResetError(r.token) # ResetError(q.token)
  /\ \A v \in vtokens :
       v.expires_at < now =>
         /\ verify_email(Db, now, v.token).resp.status # 200
         /\ verify_email(Db, now, v.token).db = Db
         /\ VerifyError(v.token) # VerifyError(UnissuedToken)
  /\ reset_password(Db, now, UnissuedToken, PwA, 1).db = Db
  /\ verify_email(Db, now, UnissuedToken).db = Db

C28_TimeLeavesLockout ==
  (now' # now) =>
    \A u \in UserIds :
      /\ u \in DOMAIN users'
      /\ users'[u].login_attempts = users[u].login_attempts
      /\ users'[u].locked_until = users[u].locked_until

C28_WrongLoginRelocks ==
  \A u \in UserIds, raw_identifier \in RawIdentifiers, password \in Passwords :
    (/\ users[u].locked_until # NoTime
     /\ users[u].locked_until <= now
     /\ Designates(raw_identifier, u)
     /\ ~Correct(password, u)) =>
      LET r == login(Db, now, EMAIL_ENABLED, raw_identifier, password)
          after == r.db.users[u]
      IN /\ r.resp.status = 401
         /\ after.login_attempts = users[u].login_attempts + 1
         /\ after.login_attempts > MAX_LOGIN_ATTEMPTS
         /\ after.locked_until = now + Minutes(LOCKOUT_DURATION_MINUTES)
         /\ check_account_locked(after, now)

(* C28: expiry of the lockout window by itself changes neither             *)
(* failed_count nor locked_until; so the first wrong-password login after  *)
(* the window expires, with no successful login or password reset in       *)
(* between, raises failed_count above the threshold and locks the account  *)
(* again for a full lockout duration.                                      *)
C28_ExpiredLockoutRelocks == []C28_WrongLoginRelocks /\ [][C28_TimeLeavesLockout]_vars

C28_Witness ==
  /\ last.op = "login"
  /\ last.status = 401
  /\ now > Minutes(LOCKOUT_DURATION_MINUTES)
  /\ \E u \in UserIds :
       /\ last.user = u
       /\ users[u].login_attempts = MAX_LOGIN_ATTEMPTS + 1
       /\ users[u].locked_until = now + Minutes(LOCKOUT_DURATION_MINUTES)

(* C29: with verification globally required, a login with the correct      *)
(* password for an unverified, unlocked user fails with NotVerified,       *)
(* issues no tokens, and leaves failed_count, locked_until and the stored  *)
(* refresh token unchanged.                                                *)
C29_UnverifiedLoginChangesNothing ==
  \A u \in UserIds, raw_identifier \in RawIdentifiers, password \in Passwords :
    (/\ EMAIL_ENABLED
     /\ Designates(raw_identifier, u)
     /\ ~users[u].is_verified
     /\ ~Locked(u)
     /\ Correct(password, u)) =>
      LET r == login(Db, now, EMAIL_ENABLED, raw_identifier, password)
          after == r.db.users[u]
      IN /\ r.resp.status = 403
         /\ r.resp.detail = "Email not verified"
         /\ r.resp.access_token = NoToken
         /\ r.resp.refresh_token = NoToken
         /\ after.login_attempts = users[u].login_attempts
         /\ after.locked_until = users[u].locked_until
         /\ after.refresh_token = users[u].refresh_token
         /\ r.db = Db

C29_Witness ==
  /\ EMAIL_ENABLED
  /\ \E u \in UserIds, raw_identifier \in RawIdentifiers :
       /\ Designates(raw_identifier, u)
       /\ ~users[u].is_verified
       /\ ~Locked(u)
       /\ users[u].login_attempts > 0
       /\ users[u].locked_until # NoTime
       /\ Correct(PwA, u)
       /\ login(Db, now, EMAIL_ENABLED, raw_identifier, PwA).resp.status = 403

(* C30: a successful verify_email(t) for an unverified owner sets          *)
(* verified = true for exactly the user the token was issued to and        *)
(* deletes the token row; for an already verified owner it succeeds and    *)
(* changes nothing; in neither case does any other user's record change.   *)
C30_VerifyEmailFrame ==
  \A v \in vtokens :
    LET r == verify_email(Db, now, v.token)
        u == v.user_id
    IN
    /\ (u \in UserIds /\ ~(v.expires_at < now)) => r.resp.status = 200
    /\ r.resp.status = 200 =>
         /\ u \in UserIds
         /\ DOMAIN r.db.users = UserIds
         /\ \A w \in UserIds \ {u} : r.db.users[w] = users[w]
         /\ IF users[u].is_verified
            THEN r.db = Db
            ELSE /\ r.db.users[u] = [users[u] EXCEPT !.is_verified = TRUE]
                 /\ r.db.vtokens = vtokens \ {v}
                 /\ r.db = [Db EXCEPT !.users = r.db.users, !.vtokens = r.db.vtokens]

C30_Witness ==
  /\ last.op = "verify_email"
  /\ last.status = 200
  /\ Len(users) = MaxAccounts
  /\ users[last.user].is_verified
  /\ \A v \in vtokens : v.user_id # last.user
  /\ \E v \in vtokens :
       /\ v.user_id # last.user
       /\ users[v.user_id].is_verified
       /\ verify_email(Db, now, v.token).resp.detail = "Email already verified"
       /\ verify_email(Db, now, v.token).db = Db

(* C31: reset_password with a new password that fails the password policy  *)
(* is rejected with ValidationFailed whatever the token's state (absent,   *)
(* expired, used or valid), and leaves the token unused, so that a later   *)
(* reset_password with the same token and a policy-valid password still    *)
(* succeeds.                                                               *)
C31_PolicyBeforeToken ==
  \A token \in 1..(MaxTokens + 1), new_password \in Passwords, salt \in Salts :
    ~validate_password_strength(new_password).is_valid =>
      LET r == reset_password(Db, now, token, new_password, salt)
          usable == \E row \in rtokens :
                      /\ row.token = token
                      /\ ~row.used
                      /\ ~(row.expires_at < now)
                      /\ row.user_id \in UserIds
      IN /\ r.db = Db
         /\ \/ r.resp.status = 422 /\ ~PasswordFieldOk(new_password)
            \/ r.resp.status = 400 /\ r.resp.detail = "Password does not meet requirements"
         /\ usable => reset_password(r.db, now, token, PwB, salt).resp.status = 200

C31_Witness ==
  /\ \E row \in rtokens :
       /\ row.used
       /\ reset_password(Db, now, row.token, PwWeak, 1).resp.detail
            = "Password does not meet requirements"
  /\ \E row \in rtokens :
       /\ ~row.used
       /\ row.expires_at < now
       /\ reset_password(Db, now, row.token, PwWeak, 1).resp.detail
            = "Password does not meet requirements"

(* C32: when several wrong-password logins for the same unlocked account   *)
(* run concurrently with their reads and writes interleaved, no increment  *)
(* is lost: failed_count grows by exactly the number of such attempts      *)
(* (streak counts them, up to the threshold, since the account was last    *)
(* clean).                                                                 *)
C32_NoLostIncrement ==
  \A u \in UserIds : users[u].login_attempts >= streak[u]

C33_DeliveryLeavesState ==
  (Queued(probe') # Queued(probe) /\ Queued(probe') \subseteq Queued(probe)) =>
    UNCHANGED <<users, vtokens, rtokens, nextTok, last, issued>>

C33_HandOffAfterCommit ==
  \A mail \in Queued(probe') \ Queued(probe) :
    /\ users' # <<>>
    /\ \/ \E v \in vtokens' : v.token = mail /\ v.user_id \in DOMAIN users'
       \/ \E r \in rtokens' : r.token = mail /\ r.user_id \in DOMAIN users'

(* C33: signup, resend_verification and forgot_password return the same    *)
(* result and leave the same persisted state whether email delivery later  *)
(* succeeds or fails; delivery is handed off only after the token has been *)
(* committed to storage, and a delivery failure never rolls back the user  *)
(* or the token.                                                           *)
C33_DeliveryNeverRollsBack ==
  [][C33_DeliveryLeavesState /\ C33_HandOffAfterCommit]_vars

C33_Witness ==
  /\ \E mail \in Failed(probe) : \E v \in vtokens : v.token = mail
  /\ \E mail \in Failed(probe) : \E r \in rtokens : r.token = mail /\ ~r.used
  /\ users # <<>>

(* C34: every operation step that clears locked_until (successful login,   *)
(* successful reset_password) sets failed_count to 0 in the same step; no  *)
(* operation clears locked_until while leaving failed_count above 0.       *)
C34_ClearingLockResetsCount ==
  [][\A u \in UserIds :
       (/\ u \in DOMAIN users'
        /\ users[u].locked_until # NoTime
        /\ users'[u].locked_until = NoTime) =>
         /\ users'[u].login_attempts = 0
         /\ last'.op \in {"login", "reset_password"}
         /\ last'.status = 200
         /\ last'.user = u]_vars

(* A lock that has run out, with a reset token at hand: a successful login *)
(* and a successful reset_password each clear both fields.                 *)
C34_Witness ==
  \E u \in UserIds, raw_identifier \in RawIdentifiers, row \in rtokens :
    LET after_login == login(Db, now, EMAIL_ENABLED, raw_identifier, PwA)
        after_reset == reset_password(Db, now, row.token, PwB, 1)
    IN /\ Designates(raw_identifier, u)
       /\ row.user_id = u
       /\ users[u].locked_until # NoTime
       /\ users[u].login_attempts >= MAX_LOGIN_ATTEMPTS
       /\ after_login.resp.status = 200
       /\ after_login.db.users[u].locked_until = NoTime
       /\ after_login.db.users[u].login_attempts = 0
       /\ after_reset.resp.status = 200
       /\ after_reset.db.users[u].locked_until = NoTime
       /\ after_reset.db.users[u].login_attempts = 0

(* C35: in every state reachable by sequential signup, resend_verification *)
(* and verify_email calls each user has at most one verification token;    *)
(* after resend_verification issues a new token, every token issued        *)
(* earlier to that user fails verify_email with TokenNotFound.             *)
C35_OneVerificationToken ==
  /\ \A u \in UserIds : Cardinality({v \in vtokens : v.user_id = u}) <= 1
  /\ \A v \in vtokens : v.user_id \in UserIds
  /\ \A email \in RawEmails :
       LET r == resend_verification(Db, now, email)
           u == r.resp.user
       IN r.resp.mail # 0 =>
            /\ {v.token : v \in {w \in r.db.vtokens : w.user_id = u}} = {r.resp.mail}
            /\ \A old \in 1..nextTok :
                 (old \notin {v.token : v \in {w \in vtokens : w.user_id # u}}) =>
                   LET late == verify_email(r.db, now, old)
                   IN /\ late.resp.status = 400
                      /\ late.resp.detail = "Invalid verification token"
                      /\ late.db = r.db

C35_Witness ==
  /\ last.op = "resend_verification"
  /\ last.user \in UserIds
  /\ ~users[last.user].is_verified
  /\ \E v \in vtokens : v.user_id = last.user /\ v.token = nextTok /\ v.token > 1
  /\ \E old \in 1..(nextTok - 1) :
       verify_email(Db, now, old).resp.detail = "Invalid verification token"

(* C36: in every reachable state, for every user, locked_until is set only *)
(* if failed_count >= max_login_attempts; failed_count is never negative   *)
(* and is 0 for a user who has never had a failed login (streak is 0 for   *)
(* such a user), a user that signup has just created included.  The        *)
(* requests are served one after another; the interleaved logins of        *)
(* SpecLogins are the subject of C32.                                      *)
C36_LockImpliesThreshold ==
  /\ \A u \in UserIds :
       /\ users[u].locked_until # NoTime => users[u].login_attempts >= MAX_LOGIN_ATTEMPTS
       /\ users[u].login_attempts >= 0
       /\ streak[u] = 0 => users[u].login_attempts = 0
  /\ \A raw_username \in RawUsernames, raw_email \in RawEmails, salt \in Salts :
       LET r == signup(Db, now, EMAIL_ENABLED, raw_username, raw_email, PwA, salt)
       IN r.resp.status = 201 =>
            /\ r.db.users[r.resp.user].login_attempts = 0
            /\ r.db.users[r.resp.user].locked_until = NoTime

C36_Witness ==
  \E u \in UserIds :
    /\ users[u].locked_until # NoTime
    /\ users[u].locked_until <= now
    /\ users[u].login_attempts = MAX_LOGIN_ATTEMPTS
    /\ streak[u] = MAX_LOGIN_ATTEMPTS

(* The database after one more signup: with a second account, or as it is  *)
(* when the identity is taken.                                             *)
C37_Databases ==
  {signup(Db, now, EMAIL_ENABLED, identity[1], identity[2], PwA, 1).db :
     identity \in {<<(<<"a", "l", "i">>), (<<"a", "@", "x">>)>>,
                    <<(<<"b", "o", "b">>), (<<"b", "@", "x">>)>>}}

C37_ResetOnlyByOwnToken ==
  \A d1 \in C37_Databases, email \in {<<"a", "@", "x">>, <<"b", "@", "x">>} :
    LET db == forgot_password(d1, now, email).db IN
    \A token \in 1..(db.nextTok + 1), new_password \in {PwB} :
      LET r == reset_password(db, now, token, new_password, 1) IN
      \A u \in Ids(db) :
        r.db.users[u].hashed_password # db.users[u].hashed_password =>
          /\ r.resp.status = 200
          /\ \E row \in db.rtokens :
               /\ row.token = token
               /\ row.user_id = u
               /\ ~row.used
               /\ ~(row.expires_at < now)

C37_ChangeOnlyByOwner ==
  \A db \in C37_Databases :
    \A token \in {create_access_token(s, db.users[s].username, now) : s \in Ids(db)}
                  \cup {Garbage},
       current_password \in LoginPasswords, new_password \in {PwB} :
      LET r == change_password(db, now, token, current_password, new_password, 1) IN
      \A u \in Ids(db) :
        r.db.users[u].hashed_password # db.users[u].hashed_password =>
          /\ r.resp.status = 200
          /\ get_current_user(db, now, token) = u
          /\ verify_password(current_password, db.users[u].hashed_password)

C37_NoOtherOperation ==
  \A u \in UserIds :
    (u \in DOMAIN users' /\ users'[u].hashed_password # users[u].hashed_password) =>
      /\ last'.op \in {"reset_password", "change_password"}
      /\ last'.status = 200
      /\ last'.user = u

(* C37: a user's password hash changes only through a successful           *)
(* reset_password with an unused, unexpired token that forgot_password     *)
(* issued for that same user, or through a successful change_password      *)
(* authenticated as that user; no other operation, and no token issued to  *)
(* another user, modifies it.                                              *)
C37_HashChangesOnlyByOwner ==
  /\ [](C37_ResetOnlyByOwnToken /\ C37_ChangeOnlyByOwner)
  /\ [][C37_NoOtherOperation]_vars

(* The password was reset with a token of the user at an instant where     *)
(* tokens issued at the start have expired.                                *)
C37_Witness ==
  \E u \in UserIds :
    /\ last.op = "reset_password"
    /\ last.status = 200
    /\ last.user = u
    /\ Correct(PwB, u)
    /\ \E row \in rtokens : row.user_id = u /\ row.used
    /\ now > Hours(PASSWORD_RESET_TOKEN_EXPIRE_HOURS)

C38_KeepsSessions(r) ==
  r.resp.status = 200 =>
    /\ \A u \in UserIds : r.db.users[u].refresh_token = users[u].refresh_token
    /\ \A token \in PresentableRefresh \cup issued :
         RefreshSucceeds(Db, now, token) => RefreshSucceeds(r.db, now, token)

(* C38: reset_password and change_password leave the stored refresh token  *)
(* of every user unchanged: a refresh token obtained before the password   *)
(* was reset or changed still succeeds in refresh afterwards.              *)
C38_PasswordChangeKeepsRefreshToken ==
  /\ \A token \in 1..nextTok :
       C38_KeepsSessions(reset_password(Db, now, token, PwB, 1))
  /\ \A token \in CurrentAccess, current_password \in LoginPasswords :
       C38_KeepsSessions(change_password(Db, now, token, current_password, PwB, 1))

(* A logged-in user can both reset and change the password now. *)
C38_Witness ==
  \E u \in UserIds :
    /\ users[u].refresh_token # NoToken
    /\ RefreshSucceeds(Db, now, users[u].refresh_token)
    /\ \E token \in 1..nextTok :
         LET r == reset_password(Db, now, token, PwB, 1)
         IN r.resp.status = 200 /\ r.resp.user = u
    /\ \E token \in CurrentAccess, current_password \in LoginPasswords :
         LET r == change_password(Db, now, token, current_password, PwB, 1)
         IN r.resp.status = 200 /\ r.resp.user = u

(* What logout, refresh, login, password reset and password change can     *)
(* answer now.                                                             *)
C39_Outcomes ==
  {logout(Db, now, token) : token \in PresentableAccess}
    \cup {refresh_token(Db, now, token) :
            token \in {users[u].refresh_token : u \in UserIds} \cup {Garbage}}
    \cup {login(Db, now, EMAIL_ENABLED, raw_identifier, password) :
            raw_identifier \in RawIdentifiers, password \in LoginPasswords}
    \cup {reset_password(Db, now, token, PwB, 1) : token \in 1..nextTok}
    \cup {change_password(Db, now, token, current_password, PwB, 1) :
            token \in CurrentAccess, current_password \in LoginPasswords}

(* C39: logout clears only the stored refresh token: an access token       *)
(* issued before logout is still accepted by current_user after logout,    *)
(* and no operation (logout, refresh, login, password reset or change)     *)
(* revokes an access token that was accepted before it.                    *)
C39_AccessTokensNeverRevoked ==
  /\ \A token \in PresentableAccess :
       LET r == logout(Db, now, token) IN
       r.resp.status = 200 =>
         /\ r.db = [Db EXCEPT !.users[r.resp.user].refresh_token = NoToken]
         /\ get_current_user(r.db, now, token) = r.resp.user
  /\ \A r \in C39_Outcomes, token \in PresentableAccess :
       get_current_user(Db, now, token) # 0 =>
         get_current_user(r.db, now, token) = get_current_user(Db, now, token)

(* A user has logged out, and an access token made at an earlier instant   *)
(* is still accepted.                                                      *)
C39_Witness ==
  /\ last.op = "logout"
  /\ last.status = 200
  /\ last.user \in UserIds
  /\ users[last.user].refresh_token = NoToken
  /\ \E t \in PastInstants :
       /\ t < now
       /\ get_current_user(Db, now,
                           create_access_token(last.user, users[last.user].username, t))
            = last.user

(* C40: when two refresh calls presenting the same currently stored        *)
(* refresh token run concurrently, their storage reads and writes          *)
(* interleaved, at most one of them succeeds: it never happens that both   *)
(* return a token pair.                                                    *)
C40_AtMostOneConcurrentRefresh ==
  \A p \in Procs, q \in Procs :
    (/\ p # q
     /\ sessions[p].pc = "answered"
     /\ sessions[q].pc = "answered"
     /\ sessions[p].presented = sessions[q].presented) =>
      ~(sessions[p].status = 200 /\ sessions[q].status = 200)

(* C40, second half: two calls that both returned a pair for the same      *)
(* presented token never leave only one of the two returned refresh tokens *)
(* stored.                                                                 *)
C40_BothReturnedTokensStored ==
  \A p \in Procs, q \in Procs :
    (/\ p # q
     /\ sessions[p].pc = "answered" /\ sessions[p].status = 200
     /\ sessions[q].pc = "answered" /\ sessions[q].status = 200
     /\ sessions[p].presented = sessions[q].presented) =>
      sessions[p].refresh_token = sessions[q].refresh_token

====
